---------------------------- MODULE Spec2Model ----------------------------
(***************************************************************************)
(* Model of the jwtauth package: the validator registry (Config) built by  *)
(* NewConfig from functional options, and the validation pipeline          *)
(* parseAndValidateJWT, which hands the token to jwt.Parse (golang-jwt v5) *)
(* with validateAlgorithm as key callback and then applies its own claim   *)
(* checks.                                                                 *)
(*                                                                         *)
(* Time is counted in whole seconds.  Key material is abstracted to a key  *)
(* identity: a signature verifies iff it was made with the same identity   *)
(* under the same method.  Byte slices and the required-claims array are   *)
(* heap objects, so that a reference kept by the Config and a reference    *)
(* kept by the caller denote the same cells.                               *)
(***************************************************************************)
EXTENDS Integers, Sequences, FiniteSets, TLC

VARIABLES
  cfg,        \* the *Config returned by NewConfig, or NilCfg
  cfgErr,     \* the error returned by NewConfig, or NilErr
  bufs,       \* heap: the caller's secret byte slices, by buffer id
  nameBufs,   \* heap: the caller's claim-name slices, by buffer id
  optsIn,     \* the option list the caller passed to NewConfig
  pc,         \* "start" | "constructed" | "idle" | "running" | "returned"
  call,       \* the last parseAndValidateJWT call: its input and its result
  req,        \* the request an adapter (Gin, gRPC) is handling, or NoReq
  sink,       \* what the audit logger has written for the request in hand
  procs,      \* the concurrent parseAndValidateJWT calls, by goroutine
  unit        \* the last direct call of a package function, or NoUnit

vars == <<cfg, cfgErr, bufs, nameBufs, optsIn, pc, call, req, sink, procs, unit>>

---------------------------------------------------------------------------
(* Bounds of the model *)

\* longest option list handed to NewConfig
MaxOpts == 3
\* largest argument tried for WithClockSkew (the smallest is -1)
MaxSkewArg == 1
\* how far (seconds) exp / nbf are placed around each boundary of the window
MaxDelta == 1

---------------------------------------------------------------------------
(* Program constants *)

DefaultClockSkew == 60
MinSecretLen == 32
\* time.Time{} (the zero value tested by IsZero): year 1, far before every
\* instant a token can name; here the smallest integer at hand
ZeroTime == -2147483647

ErrExpired == "EXPIRED"
ErrInvalidSignature == "INVALID_SIGNATURE"
ErrMissingToken == "MISSING_TOKEN"
ErrMalformed == "MALFORMED"
ErrAlgorithmMismatch == "ALGORITHM_MISMATCH"
ErrNoneAlgorithm == "NONE_ALGORITHM"
ErrConfigError == "CONFIG_ERROR"
ErrUnsupportedAlgorithm == "UNSUPPORTED_ALGORITHM"
ErrMalformedAlgorithmHeader == "MALFORMED_ALGORITHM_HEADER"

\* a nil error / a nil *Claims / a nil *Config
NilErr == [code |-> "", msg |-> <<>>]
NilClaims == [nil |-> TRUE]
NilCfg == [nil |-> TRUE]

\* NewValidationError(code, message, internal): the message is kept as the
\* list of the fragments fmt.Sprintf joins
NewValidationError(code, message) == [code |-> code, msg |-> message]

---------------------------------------------------------------------------
(* Texts of the errors of the JWT library, as character sequences, so that *)
(* containsAny can be computed on them as the code computes it.            *)

\* "token is malformed"
TxtErrTokenMalformed ==
  <<
    "t","o","k","e","n"," ","i","s"," ","m","a","l","f","o","r","m","e",
    "d"
  >>
\* "token is unverifiable"
TxtErrTokenUnverifiable ==
  <<
    "t","o","k","e","n"," ","i","s"," ","u","n","v","e","r","i","f","i",
    "a","b","l","e"
  >>
\* "token signature is invalid"
TxtErrTokenSignatureInvalid ==
  <<
    "t","o","k","e","n"," ","s","i","g","n","a","t","u","r","e"," ","i",
    "s"," ","i","n","v","a","l","i","d"
  >>
\* "token has invalid claims"
TxtErrTokenInvalidClaims ==
  <<
    "t","o","k","e","n"," ","h","a","s"," ","i","n","v","a","l","i","d",
    " ","c","l","a","i","m","s"
  >>
\* "token is expired"
TxtErrTokenExpired ==
  <<
    "t","o","k","e","n"," ","i","s"," ","e","x","p","i","r","e","d"
  >>
\* "token is not valid yet"
TxtErrTokenNotValidYet ==
  <<
    "t","o","k","e","n"," ","i","s"," ","n","o","t"," ","v","a","l","i",
    "d"," ","y","e","t"
  >>
\* "signature is invalid"
TxtErrSignatureInvalid ==
  <<
    "s","i","g","n","a","t","u","r","e"," ","i","s"," ","i","n","v","a",
    "l","i","d"
  >>
\* "key is of invalid type"
TxtErrInvalidKeyType ==
  <<
    "k","e","y"," ","i","s"," ","o","f"," ","i","n","v","a","l","i","d",
    " ","t","y","p","e"
  >>
\* "invalid type for claim"
TxtErrInvalidType ==
  <<
    "i","n","v","a","l","i","d"," ","t","y","p","e"," ","f","o","r"," ",
    "c","l","a","i","m"
  >>
\* "crypto/rsa: verification error"
TxtRsaErrVerification ==
  <<
    "c","r","y","p","t","o","/","r","s","a",":"," ","v","e","r","i","f",
    "i","c","a","t","i","o","n"," ","e","r","r","o","r"
  >>
\* "token contains an invalid number of segments"
TxtSegments ==
  <<
    "t","o","k","e","n"," ","c","o","n","t","a","i","n","s"," ","a","n",
    " ","i","n","v","a","l","i","d"," ","n","u","m","b","e","r"," ","o",
    "f"," ","s","e","g","m","e","n","t","s"
  >>
\* "could not base64 decode header"
TxtDecodeHeaderB64 ==
  <<
    "c","o","u","l","d"," ","n","o","t"," ","b","a","s","e","6","4"," ",
    "d","e","c","o","d","e"," ","h","e","a","d","e","r"
  >>
\* "could not JSON decode header"
TxtDecodeHeaderJSON ==
  <<
    "c","o","u","l","d"," ","n","o","t"," ","J","S","O","N"," ","d","e",
    "c","o","d","e"," ","h","e","a","d","e","r"
  >>
\* "could not base64 decode claim"
TxtDecodeClaimB64 ==
  <<
    "c","o","u","l","d"," ","n","o","t"," ","b","a","s","e","6","4"," ",
    "d","e","c","o","d","e"," ","c","l","a","i","m"
  >>
\* "could not JSON decode claim"
TxtDecodeClaimJSON ==
  <<
    "c","o","u","l","d"," ","n","o","t"," ","J","S","O","N"," ","d","e",
    "c","o","d","e"," ","c","l","a","i","m"
  >>
\* "could not base64 decode signature"
TxtDecodeSignatureB64 ==
  <<
    "c","o","u","l","d"," ","n","o","t"," ","b","a","s","e","6","4"," ",
    "d","e","c","o","d","e"," ","s","i","g","n","a","t","u","r","e"
  >>
\* "signing method (alg) is unavailable"
TxtAlgUnavailable ==
  <<
    "s","i","g","n","i","n","g"," ","m","e","t","h","o","d"," ","(","a",
    "l","g",")"," ","i","s"," ","u","n","a","v","a","i","l","a","b","l",
    "e"
  >>
\* "signing method (alg) is unspecified"
TxtAlgUnspecified ==
  <<
    "s","i","g","n","i","n","g"," ","m","e","t","h","o","d"," ","(","a",
    "l","g",")"," ","i","s"," ","u","n","s","p","e","c","i","f","i","e",
    "d"
  >>
\* "error while executing keyfunc"
TxtKeyfunc ==
  <<
    "e","r","r","o","r"," ","w","h","i","l","e"," ","e","x","e","c","u",
    "t","i","n","g"," ","k","e","y","f","u","n","c"
  >>
\* "HMAC verify expects []byte"
TxtHMACExpectsBytes ==
  <<
    "H","M","A","C"," ","v","e","r","i","f","y"," ","e","x","p","e","c",
    "t","s"," ","[","]","b","y","t","e"
  >>
\* "RSA verify expects *rsa.PublicKey"
TxtRSAExpectsKey ==
  <<
    "R","S","A"," ","v","e","r","i","f","y"," ","e","x","p","e","c","t",
    "s"," ","*","r","s","a",".","P","u","b","l","i","c","K","e","y"
  >>
\* "'none' signature type is not allowed"
TxtNoneDisallowed ==
  <<
    "'","n","o","n","e","'"," ","s","i","g","n","a","t","u","r","e"," ",
    "t","y","p","e"," ","i","s"," ","n","o","t"," ","a","l","l","o","w",
    "e","d"
  >>
\* "exp is invalid"
TxtExpInvalid ==
  <<
    "e","x","p"," ","i","s"," ","i","n","v","a","l","i","d"
  >>
\* "nbf is invalid"
TxtNbfInvalid ==
  <<
    "n","b","f"," ","i","s"," ","i","n","v","a","l","i","d"
  >>
\* "illegal base64 data at input byte 0"
TxtBase64Corrupt ==
  <<
    "i","l","l","e","g","a","l"," ","b","a","s","e","6","4"," ","d","a",
    "t","a"," ","a","t"," ","i","n","p","u","t"," ","b","y","t","e"," ",
    "0"
  >>
\* "invalid character 'x' looking for beginning of value"
TxtJSONSyntax ==
  <<
    "i","n","v","a","l","i","d"," ","c","h","a","r","a","c","t","e","r",
    " ","'","x","'"," ","l","o","o","k","i","n","g"," ","f","o","r"," ",
    "b","e","g","i","n","n","i","n","g"," ","o","f"," ","v","a","l","u",
    "e"
  >>
\* "unexpected end of JSON input"
TxtJSONEOF ==
  <<
    "u","n","e","x","p","e","c","t","e","d"," ","e","n","d"," ","o","f",
    " ","J","S","O","N"," ","i","n","p","u","t"
  >>
\* ": "
TxtColon ==
  <<
    ":"," "
  >>
\* ", "
TxtComma ==
  <<
    ","," "
  >>
\* "signature"
SubSignature ==
  <<
    "s","i","g","n","a","t","u","r","e"
  >>
\* "invalid"
SubInvalid ==
  <<
    "i","n","v","a","l","i","d"
  >>

---------------------------------------------------------------------------
(* Strings that sort.Strings has to order: the byte values of each name *)

AlgBytes ==
  [HS256 |-> <<72, 83, 50, 53, 54>>, RS256 |-> <<82, 83, 50, 53, 54>>]

RECURSIVE BytesLess(_, _)
\* Go's string comparison a < b: bytewise, a proper prefix is smaller
BytesLess(a, b) ==
  IF b = <<>> THEN FALSE
  ELSE IF a = <<>> THEN TRUE
  ELSE IF Head(a) # Head(b) THEN Head(a) < Head(b)
  ELSE BytesLess(Tail(a), Tail(b))

StrLess(a, b) == BytesLess(AlgBytes[a], AlgBytes[b])

RECURSIVE InsertSorted(_, _)
InsertSorted(x, s) ==
  IF s = <<>> THEN <<x>>
  ELSE IF StrLess(Head(s), x) THEN <<Head(s)>> \o InsertSorted(x, Tail(s))
  ELSE <<x>> \o s

RECURSIVE SortStrings(_)
\* sort.Strings: ascending order
SortStrings(s) ==
  IF s = <<>> THEN <<>> ELSE InsertSorted(Head(s), SortStrings(Tail(s)))

\* all orders in which a range over a map with key set S may visit the keys
IterOrders(S) ==
  {p \in [1..Cardinality(S) -> S] : \A k \in S : \E i \in DOMAIN p : p[i] = k}

---------------------------------------------------------------------------
(* The heap objects a caller hands to the options *)

KeyVals == {"K1", "K2"}
BufIds == {"b1", "b2"}
NameBufIds == {"n1", "n2"}
ClaimNamePool == {"role", "tenant"}
\* *rsa.PublicKey arguments: a key, or the nil pointer
RsaKeyArgs == {"P1", "nil"}

InitBufs ==
  [b \in BufIds |->
     IF b = "b1" THEN [len |-> MinSecretLen, val |-> "K1"]
     ELSE [len |-> MinSecretLen - 1, val |-> "K1"]]

InitNameBufs ==
  [n \in NameBufIds |-> IF n = "n1" THEN <<"role">> ELSE <<"tenant">>]

---------------------------------------------------------------------------
(* Config and its functional options *)

algorithmValidator(key, method) == [signingKey |-> key, signingMethod |-> method]

\* a signing key held by a validator: a []byte is a reference into bufs
BytesKey(b) == [kind |-> "bytes", ref |-> b]
RsaKey(k) == [kind |-> "rsa", ref |-> k]
NilKey == [kind |-> "nil", ref |-> ""]

\* a Go map with no key
EmptyMap == [x \in {} |-> 0]

\* the Config allocated at the top of NewConfig
EmptyConfig ==
  [validators |-> EmptyMap,
   clockSkewLeeway |-> DefaultClockSkew,
   cookieName |-> "",
   requiredClaims |-> <<>>,
   logger |-> "nil",
   contextKeyPrefix |-> "jwtauth"]

\* an option value: which constructor made it and with which argument
Opt(op, s, n) == [op |-> op, s |-> s, n |-> n]

SkewArgs == (-1) .. MaxSkewArg

Options ==
  {Opt("WithHS256", b, 0) : b \in BufIds}
    \cup {Opt("WithRS256", k, 0) : k \in RsaKeyArgs}
    \cup {Opt("WithClockSkew", "", n) : n \in SkewArgs}
    \cup {Opt("WithRequiredClaims", nb, 0) : nb \in NameBufIds}
    \cup {Opt("WithCookie", "auth_token", 0), Opt("WithLogger", "L1", 0)}

OptLists == UNION {[1..n -> Options] : n \in 0..MaxOpts}

\* m with key k set to v (a Go map store)
MapPut(m, k, v) ==
  [x \in (DOMAIN m) \cup {k} |-> IF x = k THEN v ELSE m[x]]

OptOk(c) == [err |-> <<>>, c |-> c]
OptErr(c, message) == [err |-> message, c |-> c]

\* WithHS256 without the length check of the secret
WithHS256_NoLengthCheck(c, b, heap) ==
  OptOk([c EXCEPT !.validators =
           MapPut(@, "HS256", algorithmValidator(BytesKey(b), "HS256"))])

WithHS256(c, b, heap) ==
  IF heap[b].len < MinSecretLen
  THEN OptErr(c, <<"HS256 secret must be at least 32 bytes (256 bits), got ",
                   ToString(heap[b].len), " bytes">>)
  ELSE OptOk([c EXCEPT !.validators =
                MapPut(@, "HS256", algorithmValidator(BytesKey(b), "HS256"))])

\* WithRS256 that pairs the public key with the HMAC signing method
WithRS256_HMACMethod(c, publicKey) ==
  IF publicKey = "nil"
  THEN OptErr(c, <<"RS256 public key cannot be nil">>)
  ELSE OptOk([c EXCEPT !.validators =
                MapPut(@, "RS256", algorithmValidator(RsaKey(publicKey), "HS256"))])

WithRS256(c, publicKey) ==
  IF publicKey = "nil"
  THEN OptErr(c, <<"RS256 public key cannot be nil">>)
  ELSE OptOk([c EXCEPT !.validators =
                MapPut(@, "RS256", algorithmValidator(RsaKey(publicKey), "RS256"))])

\* WithClockSkew without the sign check
WithClockSkew_NoSignCheck(c, skew) == OptOk([c EXCEPT !.clockSkewLeeway = skew])

\* WithClockSkew that checks the sign and then leaves the skew as it was
WithClockSkew_Ignored(c, skew) ==
  IF skew < 0
  THEN OptErr(c, <<"clock skew must be non-negative, got ", ToString(skew)>>)
  ELSE OptOk(c)

WithClockSkew(c, skew) ==
  IF skew < 0
  THEN OptErr(c, <<"clock skew must be non-negative, got ", ToString(skew)>>)
  ELSE OptOk([c EXCEPT !.clockSkewLeeway = skew])

WithCookie(c, cookieName) == OptOk([c EXCEPT !.cookieName = cookieName])

WithLogger(c, logger) == OptOk([c EXCEPT !.logger = logger])

\* append copies the caller's names into the Config's own array
WithRequiredClaims(c, claims) ==
  OptOk([c EXCEPT !.requiredClaims = @ \o claims])

ApplyOption(c, o, heap, names) ==
  CASE o.op = "WithHS256" -> WithHS256(c, o.s, heap)
    [] o.op = "WithRS256" -> WithRS256(c, o.s)
    [] o.op = "WithClockSkew" -> WithClockSkew(c, o.n)
    [] o.op = "WithCookie" -> WithCookie(c, o.s)
    [] o.op = "WithLogger" -> WithLogger(c, o.s)
    [] OTHER -> WithRequiredClaims(c, names[o.s])

RECURSIVE ApplyOptions(_, _, _, _)
\* the loop of NewConfig over opts: stops at the first option that fails
ApplyOptions(c, opts, heap, names) ==
  IF opts = <<>> THEN OptOk(c)
  ELSE LET r == ApplyOption(c, Head(opts), heap, names)
       IN  IF r.err # <<>> THEN r
           ELSE ApplyOptions(r.c, Tail(opts), heap, names)

IsNoneVariant(alg) == alg = "none" \/ alg = "None" \/ alg = "NONE"

\* NewConfig(opts...): the pair (cfg, err) it returns
NewConfig(opts, heap, names) ==
  LET r == ApplyOptions(EmptyConfig, opts, heap, names)
      c == r.c
      ConfigError(message) ==
        [cfg |-> NilCfg, err |-> NewValidationError(ErrConfigError, message)]
  IN  IF r.err # <<>>
        THEN ConfigError(<<"configuration error: ">> \o r.err)
      ELSE IF DOMAIN c.validators = {}
        THEN ConfigError(<<"at least one algorithm must be configured (use WithHS256 or WithRS256)">>)
      ELSE IF \E alg \in DOMAIN c.validators : IsNoneVariant(alg)
        THEN ConfigError(<<"none algorithm is prohibited">>)
      ELSE IF \E alg \in DOMAIN c.validators :
                c.validators[alg].signingKey = NilKey
        THEN ConfigError(<<"signing key cannot be nil">>)
      ELSE IF \E alg \in DOMAIN c.validators :
                c.validators[alg].signingMethod = "nil"
        THEN ConfigError(<<"signing method cannot be nil">>)
      ELSE [cfg |-> c, err |-> NilErr]

\* AvailableAlgorithms without the call of sort.Strings
AvailableAlgorithms_Unsorted(c, order) == order

\* Config.AvailableAlgorithms, given the order in which the range over the
\* validators map visits its keys
AvailableAlgorithms(c, order) == SortStrings(order)

\* Config.getValidator: (validator, exists)
getValidator(c, alg) ==
  IF alg \in DOMAIN c.validators
  THEN [validator |-> c.validators[alg], exists |-> TRUE]
  ELSE [validator |-> algorithmValidator(NilKey, "nil"), exists |-> FALSE]

ClockSkewLeeway(c) == c.clockSkewLeeway

RequiredClaims(c) == c.requiredClaims

CookieName(c) == c.cookieName

Logger(c) == c.logger

\* Config.Algorithm (deprecated): the first name in sorted order
Algorithm(c, order) ==
  LET algs == AvailableAlgorithms(c, order)
  IN  IF Len(algs) > 0 THEN algs[1] ELSE ""

\* Config.SigningKey (deprecated): the key of the first validator, the very
\* reference the validator holds
SigningKey(c, order) ==
  LET algs == AvailableAlgorithms(c, order)
  IN  IF Len(algs) > 0 THEN getValidator(c, algs[1]).validator.signingKey
      ELSE NilKey

---------------------------------------------------------------------------
(* Tokens *)

\* a JSON value as Go decodes it into interface{}: a string, a number
\* (float64), or something else (array, object, bool); Absent is a missing key
Str(x) == [t |-> "str", s |-> x, n |-> 0]
Num(k) == [t |-> "num", s |-> "", n |-> k]
Other == [t |-> "other", s |-> "", n |-> 0]
Absent == [t |-> "absent", s |-> "", n |-> 0]

\* the instant of the validation, placed so that every instant used is positive
T0 == DefaultClockSkew + MaxDelta + 1

\* the skews a Config can hold
Skews == {s \in SkewArgs : s >= 0} \cup {DefaultClockSkew}

\* exp / nbf values on both sides of every boundary of the window
ExpInstants ==
  {T0 - s - d : s \in Skews \cup {0}, d \in 0..MaxDelta}
    \cup {T0 + d : d \in 1..MaxDelta}

NbfInstants ==
  {T0 + s + d : s \in Skews, d \in 0..MaxDelta}
    \cup {T0 - d : d \in 1..MaxDelta}

\* the signing methods registered with the library (jwt.GetSigningMethod)
RegisteredMethods ==
  {"HS256", "HS384", "HS512", "RS256", "RS384", "RS512", "ES256", "ES384",
   "ES512", "PS256", "PS384", "PS512", "EdDSA", "none"}

AlgStrings == {"HS256", "RS256", "ES256", "hs256", "none", "None", "NONE"}

HeaderAlgs == {Absent, Num(12345)} \cup {Str(a) : a \in AlgStrings}

\* a signature segment: base64url of a signature made by method m with key
\* k over this token's header and payload (for RS256, k names the public
\* key whose private half signed); or text that is not base64url ("b64")
Sig(m, k) == [m |-> m, k |-> k]
Signatures ==
  {Sig("HS256", k) : k \in KeyVals}
    \cup {Sig("RS256", k) : k \in {"P1", "P2"}}
    \cup {Sig("b64", "")}

\* payloads (jwt.MapClaims): a map from claim names to JSON values
Payload(sub, exp, nbf, role) ==
  LET all == [sub |-> sub, exp |-> exp, nbf |-> nbf, role |-> role]
      D == {k \in DOMAIN all : all[k] # Absent}
  IN  [k \in D |-> all[k]]

ExpVals == {Absent} \cup {Num(t) : t \in ExpInstants}
NbfVals == {Absent} \cup {Num(t) : t \in NbfInstants}

\* exp values next to which every nbf value is tried
ExpPivots == {Absent, Num(T0 + 1)}

TimedPayloads ==
  {Payload(Str("alice"), e, Absent, Absent) : e \in ExpVals}
    \cup {Payload(Str("alice"), e, n, r) :
            e \in ExpPivots, n \in NbfVals, r \in {Absent, Str("admin")}}
    \cup {Payload(Str("alice"), Num(T0 - 1), Num(T0 + 1), r) :
            r \in {Absent, Str("admin")}}

\* payloads with every standard claim, with claims of unexpected JSON types,
\* with a zero exp, and the empty payload
FullPayload ==
  [sub |-> Str("bob"), iss |-> Str("idp"), aud |-> Str("api"),
   jti |-> Str("id-1"), exp |-> Num(T0 + 1), nbf |-> Num(T0 - 1),
   iat |-> Num(T0 - 1), role |-> Str("admin"), tenant |-> Str("acme")]

OddPayloads ==
  {FullPayload,
   [sub |-> Num(7), aud |-> Other, exp |-> Num(T0 + 1), tenant |-> Other],
   [sub |-> Str("alice"), exp |-> Str("soon")],
   [sub |-> Str("alice"), exp |-> Num(T0 + 1), nbf |-> Other],
   [sub |-> Str("alice"), exp |-> Num(0)],
   EmptyMap}

Payloads == TimedPayloads \cup OddPayloads

DefaultPayload == Payload(Str("alice"), Num(T0 + 1), Absent, Absent)

\* a token string, by what its segments decode to:
\*   segs    number of dot-separated segments
\*   header  "ok" | "b64" | "jsonchar" | "jsoneof"
\*   alg     the alg member of the header object
\*   body    "ok" | "b64" | "jsonchar" | "jsoneof"  (the payload segment)
\*   payload the payload object
\*   sig     the signature segment
Token(segs, header, alg, body, payload, sig) ==
  [segs |-> segs, header |-> header, alg |-> alg, body |-> body,
   payload |-> payload, sig |-> sig]

BadStates == {"b64", "jsonchar", "jsoneof"}

Tokens ==
  {Token(3, "ok", a, "ok", p, s) :
     a \in HeaderAlgs, p \in Payloads, s \in Signatures}
    \cup {Token(3, "ok", a, b, DefaultPayload, s) :
            a \in HeaderAlgs, b \in BadStates, s \in Signatures}
    \cup {Token(3, h, Absent, b, DefaultPayload, s) :
            h \in BadStates, b \in {"ok", "b64"},
            s \in {Sig("HS256", "K1"), Sig("b64", "")}}
    \cup {Token(n, "ok", Str("HS256"), "ok", DefaultPayload, Sig("HS256", "K1")) :
            n \in {1, 2, 4}}

---------------------------------------------------------------------------
(* The JWT library: jwt.Parse(tokenString, keyFunc) of golang-jwt v5       *)

\* an error value of the library: the sentinel errors errors.Is finds in
\* it, its Error() text, and the *ValidationError errors.As finds in it
LibErr(sentinels, text, wrapped) ==
  [sentinels |-> sentinels, text |-> text, wrapped |-> wrapped]
NoLibErr == LibErr({}, <<>>, NilErr)

\* newError(message, err, more...): "<err>: <message>: <more>"
newError(message, errText, moreText) ==
  errText
    \o (IF message = <<>> THEN <<>> ELSE TxtColon \o message)
    \o (IF moreText = <<>> THEN <<>> ELSE TxtColon \o moreText)

JSONErrText(state) == IF state = "jsonchar" THEN TxtJSONSyntax ELSE TxtJSONEOF

\* Parser.ParseUnverified: split, decode header, decode claims, look up the
\* signing method; the error, or NoLibErr
ParseUnverified(tok) ==
  IF tok.segs # 3
    THEN LibErr({"ErrTokenMalformed"},
                newError(TxtSegments, TxtErrTokenMalformed, <<>>), NilErr)
  ELSE IF tok.header = "b64"
    THEN LibErr({"ErrTokenMalformed"},
                newError(TxtDecodeHeaderB64, TxtErrTokenMalformed, TxtBase64Corrupt),
                NilErr)
  ELSE IF tok.header # "ok"
    THEN LibErr({"ErrTokenMalformed"},
                newError(TxtDecodeHeaderJSON, TxtErrTokenMalformed,
                         JSONErrText(tok.header)), NilErr)
  ELSE IF tok.body = "b64"
    THEN LibErr({"ErrTokenMalformed"},
                newError(TxtDecodeClaimB64, TxtErrTokenMalformed, TxtBase64Corrupt),
                NilErr)
  ELSE IF tok.body # "ok"
    THEN LibErr({"ErrTokenMalformed"},
                newError(TxtDecodeClaimJSON, TxtErrTokenMalformed,
                         JSONErrText(tok.body)), NilErr)
  ELSE IF tok.alg.t = "str"
    THEN IF tok.alg.s \in RegisteredMethods
           THEN NoLibErr
           ELSE LibErr({"ErrTokenUnverifiable"},
                       newError(TxtAlgUnavailable, TxtErrTokenUnverifiable, <<>>),
                       NilErr)
  ELSE LibErr({"ErrTokenUnverifiable"},
              newError(TxtAlgUnspecified, TxtErrTokenUnverifiable, <<>>), NilErr)

\* SigningMethod.Verify for the two methods a validator can name; key is
\* the signing key with a []byte already read from the heap
Verify(method, sig, key) ==
  IF method = "HS256"
    THEN IF key.kind # "bytes"
           THEN LibErr({"ErrTokenSignatureInvalid", "ErrInvalidKeyType"},
                       newError(<<>>, TxtErrTokenSignatureInvalid,
                                newError(TxtHMACExpectsBytes, TxtErrInvalidKeyType, <<>>)),
                       NilErr)
         ELSE IF sig = Sig("HS256", key.val) THEN NoLibErr
         ELSE LibErr({"ErrTokenSignatureInvalid", "ErrSignatureInvalid"},
                     newError(<<>>, TxtErrTokenSignatureInvalid, TxtErrSignatureInvalid),
                     NilErr)
  ELSE IF method = "none"
    THEN LibErr({"ErrTokenSignatureInvalid", "ErrTokenUnverifiable"},
                newError(<<>>, TxtErrTokenSignatureInvalid,
                         newError(TxtNoneDisallowed, TxtErrTokenUnverifiable, <<>>)),
                NilErr)
  ELSE IF method # "RS256" \/ key.kind # "rsa"
    THEN LibErr({"ErrTokenSignatureInvalid", "ErrInvalidKeyType"},
                newError(<<>>, TxtErrTokenSignatureInvalid,
                         newError(TxtRSAExpectsKey, TxtErrInvalidKeyType, <<>>)),
                NilErr)
  ELSE IF sig = Sig("RS256", key.val) THEN NoLibErr
  ELSE LibErr({"ErrTokenSignatureInvalid"},
              newError(<<>>, TxtErrTokenSignatureInvalid, TxtRsaErrVerification),
              NilErr)

\* MapClaims.GetExpirationTime / GetNotBefore / GetIssuedAt: the numeric
\* date under key, where a missing key and the number 0 both give nil
NumericDate(mapClaims, key) ==
  IF key \notin DOMAIN mapClaims THEN [err |-> FALSE, nil |-> TRUE, time |-> ZeroTime]
  ELSE IF mapClaims[key].t # "num" THEN [err |-> TRUE, nil |-> TRUE, time |-> ZeroTime]
  ELSE IF mapClaims[key].n = 0 THEN [err |-> FALSE, nil |-> TRUE, time |-> ZeroTime]
  ELSE [err |-> FALSE, nil |-> FALSE, time |-> mapClaims[key].n]

\* Validator.Validate with the default validator (no leeway, exp and nbf
\* checked, iat not): the errors it collects, in order
LibValidate(mapClaims, now) ==
  LET exp == NumericDate(mapClaims, "exp")
      nbf == NumericDate(mapClaims, "nbf")
      expErrs ==
        IF exp.err THEN <<[s |-> {"ErrInvalidType"},
                           text |-> newError(TxtExpInvalid, TxtErrInvalidType, <<>>)]>>
        ELSE IF exp.nil \/ now < exp.time THEN <<>>
        ELSE <<[s |-> {"ErrTokenExpired"}, text |-> TxtErrTokenExpired]>>
      nbfErrs ==
        IF nbf.err THEN <<[s |-> {"ErrInvalidType"},
                           text |-> newError(TxtNbfInvalid, TxtErrInvalidType, <<>>)]>>
        ELSE IF nbf.nil \/ now >= nbf.time THEN <<>>
        ELSE <<[s |-> {"ErrTokenNotValidYet"}, text |-> TxtErrTokenNotValidYet]>>
  IN  expErrs \o nbfErrs

\* joinErrors: the texts separated by ", "
RECURSIVE JoinTexts(_)
JoinTexts(errs) ==
  IF Len(errs) = 1 THEN errs[1].text
  ELSE errs[1].text \o TxtComma \o JoinTexts(Tail(errs))

\* the key a SigningMethod gets to see: for a []byte the bytes the slice
\* refers to at the time of the call
KeyValue(k, heap) ==
  IF k.kind = "bytes" THEN [kind |-> "bytes", val |-> heap[k.ref].val]
  ELSE [kind |-> k.kind, val |-> k.ref]

\* Parser.ParseWithClaims as called by jwt.Parse: the token it returns
\* (Valid flag, decoded claims) and its error.  got is the result
\* [key, err] of the key callback for this token, which the library asks
\* for once the segments are decoded and the signing method is found.
jwtParse(tok, got, heap, now) ==
  LET pre == ParseUnverified(tok)
      Fail(e) == [valid |-> FALSE, claims |-> tok.payload, err |-> e]
  IN  IF pre # NoLibErr THEN Fail(pre)
      ELSE IF tok.sig.m = "b64"
        THEN Fail(LibErr({"ErrTokenMalformed"},
                         newError(TxtDecodeSignatureB64, TxtErrTokenMalformed,
                                  TxtBase64Corrupt), NilErr))
      ELSE IF got.err # NilErr
        THEN Fail(LibErr({"ErrTokenUnverifiable"},
                         newError(TxtKeyfunc, TxtErrTokenUnverifiable, <<>>),
                         got.err))
      ELSE
        LET key == KeyValue(got.key, heap)
            v == Verify(tok.alg.s, tok.sig, key)
            errs == LibValidate(tok.payload, now)
        IN  IF v # NoLibErr THEN Fail(v)
            ELSE IF errs # <<>>
              THEN Fail(LibErr({"ErrTokenInvalidClaims"}
                                 \cup UNION {errs[i].s : i \in DOMAIN errs},
                               newError(<<>>, TxtErrTokenInvalidClaims,
                                        JoinTexts(errs)), NilErr))
            ELSE [valid |-> TRUE, claims |-> tok.payload, err |-> NoLibErr]

---------------------------------------------------------------------------
(* validator.go *)

\* joinStrings: the names with ", " between them, as message fragments
RECURSIVE joinStrings(_)
joinStrings(strs) ==
  IF Len(strs) = 0 THEN <<>>
  ELSE IF Len(strs) = 1 THEN <<strs[1]>>
  ELSE <<strs[1], ", ">> \o joinStrings(Tail(strs))

\* does s contain substr at some position
Contains(s, substr) ==
  /\ Len(s) >= Len(substr)
  /\ \E i \in 0..(Len(s) - Len(substr)) :
       SubSeq(s, i + 1, i + Len(substr)) = substr

containsAny(s, substrs) == \E j \in DOMAIN substrs : Contains(s, substrs[j])

\* validateAlgorithm with the alg member read by an unchecked type
\* assertion, which gives "" for a missing or non-string member
validateAlgorithm_Unchecked(alg, method, c, order) ==
  LET Reject(code, message) ==
        [key |-> NilKey, err |-> NewValidationError(code, message)]
  IN  IF IsNoneVariant(alg.s)
        THEN Reject(ErrNoneAlgorithm, <<"none algorithm not allowed">>)
      ELSE
        LET found == getValidator(c, alg.s)
        IN  IF ~found.exists
              THEN Reject(ErrUnsupportedAlgorithm,
                          <<"algorithm ", alg.s, " not supported (available: ">>
                            \o joinStrings(AvailableAlgorithms(c, order))
                            \o <<")">>)
            ELSE IF method # found.validator.signingMethod
              THEN Reject(ErrInvalidSignature,
                          <<"algorithm confusion detected: token method ", method,
                            " does not match expected method ",
                            found.validator.signingMethod>>)
            ELSE [key |-> found.validator.signingKey, err |-> NilErr]

\* validateAlgorithm(token, cfg): (signingKey, err).  alg is the header's
\* alg member, method is token.Method.Alg(), order the map iteration order
\* seen by AvailableAlgorithms.
validateAlgorithm(alg, method, c, order) ==
  LET Reject(code, message) ==
        [key |-> NilKey, err |-> NewValidationError(code, message)]
  IN  IF alg.t # "str"
        THEN IF alg.t # "absent"
               THEN Reject(ErrMalformedAlgorithmHeader,
                           <<"algorithm header must be a string">>)
               ELSE Reject(ErrMalformed, <<"missing algorithm in token header">>)
      ELSE IF IsNoneVariant(alg.s)
        THEN Reject(ErrNoneAlgorithm, <<"none algorithm not allowed">>)
      ELSE
        LET found == getValidator(c, alg.s)
        IN  IF ~found.exists
              THEN Reject(ErrUnsupportedAlgorithm,
                          <<"algorithm ", alg.s, " not supported (available: ">>
                            \o joinStrings(AvailableAlgorithms(c, order))
                            \o <<")">>)
            ELSE IF method # found.validator.signingMethod
              THEN Reject(ErrInvalidSignature,
                          <<"algorithm confusion detected: token method ", method,
                            " does not match expected method ",
                            found.validator.signingMethod>>)
            ELSE [key |-> found.validator.signingKey, err |-> NilErr]

StandardClaims == {"sub", "iss", "aud", "exp", "nbf", "iat", "jti"}

\* mapClaims[key].(string), or "" when the assertion fails
StringClaim(mapClaims, key) ==
  IF key \in DOMAIN mapClaims /\ mapClaims[key].t = "str"
  THEN mapClaims[key].s ELSE ""

\* the time a Claims field gets from a numeric date: left zero on error or nil
TimeClaim(mapClaims, key) ==
  LET d == NumericDate(mapClaims, key)
  IN  IF ~d.err /\ ~d.nil THEN d.time ELSE ZeroTime

mapJWTClaimsToClaims(mapClaims, c) ==
  [Subject |-> StringClaim(mapClaims, "sub"),
   Issuer |-> StringClaim(mapClaims, "iss"),
   Audience |-> StringClaim(mapClaims, "aud"),
   JWTID |-> StringClaim(mapClaims, "jti"),
   ExpiresAt |-> TimeClaim(mapClaims, "exp"),
   NotBefore |-> TimeClaim(mapClaims, "nbf"),
   IssuedAt |-> TimeClaim(mapClaims, "iat"),
   Custom |-> [k \in (DOMAIN mapClaims) \ StandardClaims |-> mapClaims[k]]]

\* validateClaims that rejects at the bound exp + skew itself
validateClaims_ExclusiveBound(claims, c, now) ==
  LET skew == ClockSkewLeeway(c)
  IN  IF claims.ExpiresAt # ZeroTime /\ now >= claims.ExpiresAt + skew
        THEN NewValidationError(ErrExpired,
               <<"token expired at ", ToString(claims.ExpiresAt)>>)
      ELSE IF claims.NotBefore # ZeroTime /\ now < claims.NotBefore - skew
        THEN NewValidationError(ErrExpired,
               <<"token not valid until ", ToString(claims.NotBefore)>>)
      ELSE NilErr

\* validateClaims(claims, cfg) with time.Now() = now: the error, or NilErr
validateClaims(claims, c, now) ==
  LET skew == ClockSkewLeeway(c)
  IN  IF claims.ExpiresAt # ZeroTime /\ now > claims.ExpiresAt + skew
        THEN NewValidationError(ErrExpired,
               <<"token expired at ", ToString(claims.ExpiresAt)>>)
      ELSE IF claims.NotBefore # ZeroTime /\ now < claims.NotBefore - skew
        THEN NewValidationError(ErrExpired,
               <<"token not valid until ", ToString(claims.NotBefore)>>)
      ELSE NilErr

RECURSIVE FirstMissing(_, _)
\* the first name of names that is no key of mapClaims, or "" if none
FirstMissing(names, mapClaims) ==
  IF names = <<>> THEN ""
  ELSE IF Head(names) \notin DOMAIN mapClaims THEN Head(names)
  ELSE FirstMissing(Tail(names), mapClaims)

validateRequiredClaims(mapClaims, c) ==
  LET missing == FirstMissing(RequiredClaims(c), mapClaims)
  IN  IF missing # ""
        THEN NewValidationError(ErrMalformed,
               <<"required claim missing: ", missing>>)
        ELSE NilErr

\* ClassifyParseError without the search of the error text
ClassifyParseError_NoTextSearch(err) ==
  IF err.wrapped # NilErr THEN err.wrapped
  ELSE IF "ErrTokenExpired" \in err.sentinels
    THEN NewValidationError(ErrExpired, <<"token has expired">>)
  ELSE IF "ErrSignatureInvalid" \in err.sentinels
    THEN NewValidationError(ErrInvalidSignature, <<"invalid signature">>)
  ELSE NewValidationError(ErrMalformed, <<"malformed token">>)

\* the branch of parseAndValidateJWT taken when jwt.Parse returned err
ClassifyParseError(err) ==
  IF err.wrapped # NilErr THEN err.wrapped
  ELSE IF "ErrTokenExpired" \in err.sentinels
    THEN NewValidationError(ErrExpired, <<"token has expired">>)
  ELSE IF "ErrSignatureInvalid" \in err.sentinels
    THEN NewValidationError(ErrInvalidSignature, <<"invalid signature">>)
  ELSE IF containsAny(err.text, <<SubSignature, SubInvalid>>)
    THEN NewValidationError(ErrInvalidSignature, <<"signature verification failed">>)
  ELSE NewValidationError(ErrMalformed, <<"malformed token">>)

\* parseAfterKeyFunc that returns the converted claims next to the error of
\* a failed claim check
parseAfterKeyFunc_KeepsClaims(tok, got, c, heap, now, nowV) ==
  LET parsed == jwtParse(tok, got, heap, now)
      Failed(e) == [claims |-> NilClaims, err |-> e]
  IN  IF parsed.err # NoLibErr THEN Failed(ClassifyParseError(parsed.err))
      ELSE IF ~parsed.valid
        THEN Failed(NewValidationError(ErrInvalidSignature, <<"token is invalid">>))
      ELSE
        LET claims == mapJWTClaimsToClaims(parsed.claims, c)
            timeErr == validateClaims(claims, c, nowV)
            reqErr == validateRequiredClaims(parsed.claims, c)
        IN  IF timeErr # NilErr THEN [claims |-> claims, err |-> timeErr]
            ELSE IF reqErr # NilErr THEN [claims |-> claims, err |-> reqErr]
            ELSE [claims |-> claims, err |-> NilErr]

\* parseAndValidateJWT from the point where the key callback has returned
\* got: the rest of jwt.Parse, the error branch and the claim checks
parseAfterKeyFunc(tok, got, c, heap, now, nowV) ==
  LET parsed == jwtParse(tok, got, heap, now)
      Failed(e) == [claims |-> NilClaims, err |-> e]
  IN  IF parsed.err # NoLibErr THEN Failed(ClassifyParseError(parsed.err))
      ELSE IF ~parsed.valid
        THEN Failed(NewValidationError(ErrInvalidSignature, <<"token is invalid">>))
      ELSE
        LET claims == mapJWTClaimsToClaims(parsed.claims, c)
            timeErr == validateClaims(claims, c, nowV)
            reqErr == validateRequiredClaims(parsed.claims, c)
        IN  IF timeErr # NilErr THEN Failed(timeErr)
            ELSE IF reqErr # NilErr THEN Failed(reqErr)
            ELSE [claims |-> claims, err |-> NilErr]

\* parseAndValidateJWT(tokenString, cfg): (claims, err).  now is the clock
\* read by the library, nowV the later clock read by validateClaims.
parseAndValidateJWT(tok, c, heap, now, nowV, order) ==
  parseAfterKeyFunc(tok, validateAlgorithm(tok.alg, tok.alg.s, c, order),
                    c, heap, now, nowV)

---------------------------------------------------------------------------
(* The program as a state machine: a caller builds one Config, then        *)
(* validates tokens against it.                                            *)

NoCall == [active |-> FALSE]
NoReq == [phase |-> "none"]
NoUnit == [fn |-> "none"]

\* the goroutines that validate concurrently
ProcIds == {"g1", "g2"}
IdleProc == [at |-> "idle"]

\* the clock read by validateClaims is at most this many seconds later than
\* the library's clock read of the same call
MaxDrift == 0

Init ==
  /\ cfg = NilCfg
  /\ cfgErr = NilErr
  /\ bufs = InitBufs
  /\ nameBufs = InitNameBufs
  /\ optsIn = <<>>
  /\ pc = "start"
  /\ call = NoCall
  /\ req = NoReq
  /\ sink = <<>>
  /\ procs = [p \in ProcIds |-> IdleProc]
  /\ unit = NoUnit

\* cfg, err := NewConfig(opts...)
Construct ==
  /\ pc = "start"
  /\ \E opts \in OptLists :
       LET r == NewConfig(opts, bufs, nameBufs)
       IN  /\ cfg' = r.cfg
           /\ cfgErr' = r.err
           /\ optsIn' = opts
  /\ pc' = "constructed"
  /\ UNCHANGED <<bufs, nameBufs, call>>
  /\ UNCHANGED <<req, sink, procs, unit>>

\* the caller has checked err == nil and starts serving requests with cfg;
\* it keeps no record of the options
Serve ==
  /\ pc = "constructed"
  /\ cfgErr = NilErr
  /\ pc' = "idle"
  /\ optsIn' = <<>>
  /\ UNCHANGED <<cfg, cfgErr, bufs, nameBufs, call>>
  /\ UNCHANGED <<req, sink, procs, unit>>

\* claims, err := parseAndValidateJWT(tokenString, cfg), for a token of T
ValidateIn(T) ==
  /\ pc = "idle"
  /\ \E tok \in T, nowV \in T0..(T0 + MaxDrift),
        order \in IterOrders(DOMAIN cfg.validators) :
       call' = [active |-> TRUE, tok |-> tok, now |-> T0, nowV |-> nowV,
                res |-> parseAndValidateJWT(tok, cfg, bufs, T0, nowV, order)]
  /\ pc' = "returned"
  /\ UNCHANGED <<cfg, cfgErr, bufs, nameBufs, optsIn>>
  /\ UNCHANGED <<req, sink, procs, unit>>

Validate == ValidateIn(Tokens)

\* the caller is done with the result of the call
Return ==
  /\ pc = "returned"
  /\ pc' = "idle"
  /\ call' = NoCall
  /\ UNCHANGED <<cfg, cfgErr, bufs, nameBufs, optsIn>>
  /\ UNCHANGED <<req, sink, procs, unit>>

Next == Construct \/ Serve \/ Validate \/ Return

Spec == Init /\ [][Next]_vars

---------------------------------------------------------------------------
(* What a caller can do to the heap objects the Config refers to.  These   *)
(* steps are explored in SpecCfg, with a small set of tokens.              *)

Serving == pc = "idle" \/ pc = "returned"

\* the caller overwrites the bytes of a slice it passed to WithHS256
CallerWriteSecret ==
  /\ Serving
  /\ \E b \in BufIds, v \in KeyVals :
       /\ bufs[b].val # v
       /\ bufs' = [bufs EXCEPT ![b].val = v]
  /\ UNCHANGED <<cfg, cfgErr, nameBufs, optsIn, pc, call>>
  /\ UNCHANGED <<req, sink, procs, unit>>

\* key := cfg.SigningKey(); the caller writes into the returned []byte
SigningKeyWrite ==
  /\ Serving
  /\ \E order \in IterOrders(DOMAIN cfg.validators), v \in KeyVals :
       LET key == SigningKey(cfg, order)
       IN  /\ key.kind = "bytes"
           /\ bufs[key.ref].val # v
           /\ bufs' = [bufs EXCEPT ![key.ref].val = v]
  /\ UNCHANGED <<cfg, cfgErr, nameBufs, optsIn, pc, call>>
  /\ UNCHANGED <<req, sink, procs, unit>>

\* names := cfg.RequiredClaims(); names[i] = name
RequiredClaimsWrite ==
  /\ Serving
  /\ \E i \in DOMAIN RequiredClaims(cfg), name \in ClaimNamePool :
       /\ RequiredClaims(cfg)[i] # name
       /\ cfg' = [cfg EXCEPT !.requiredClaims[i] = name]
  /\ UNCHANGED <<cfgErr, bufs, nameBufs, optsIn, pc, call>>
  /\ UNCHANGED <<req, sink, procs, unit>>

\* the caller overwrites an element of a slice it passed to
\* WithRequiredClaims
CallerWriteName ==
  /\ Serving
  /\ \E n \in NameBufIds, name \in ClaimNamePool :
     \E i \in DOMAIN nameBufs[n] :
       /\ nameBufs[n][i] # name
       /\ nameBufs' = [nameBufs EXCEPT ![n][i] = name]
  /\ UNCHANGED <<cfg, cfgErr, bufs, optsIn, pc, call>>
  /\ UNCHANGED <<req, sink, procs, unit>>

ProbeTokens ==
  {Token(3, "ok", Str(a), "ok", Payload(Str("alice"), Num(T0 + 1), Absent, r), s) :
     a \in {"HS256", "RS256"}, r \in {Absent, Str("admin")},
     s \in {Sig("HS256", "K1"), Sig("HS256", "K2"), Sig("RS256", "P1")}}

ValidateProbe == ValidateIn(ProbeTokens)

NextCfg ==
  \/ Construct
  \/ Serve
  \/ ValidateProbe
  \/ Return
  \/ CallerWriteSecret
  \/ SigningKeyWrite
  \/ RequiredClaimsWrite
  \/ CallerWriteName

SpecCfg == Init /\ [][NextCfg]_vars

---------------------------------------------------------------------------
(* The error response of the Gin adapter *)

\* an error value that is not a *ValidationError
PlainError(text) == [code |-> "", msg |-> text]

\* err.(*ValidationError) succeeds
IsValidationError(err) == err.code # ""

\* getErrorCode that takes no error for a *ValidationError
getErrorCode_Unknown(err) == "UNKNOWN"

getErrorCode(err) == IF IsValidationError(err) THEN err.code ELSE "UNKNOWN"

\* buildErrorResponse without the test of the code
buildErrorResponse_AnyCode(err) ==
  LET response == [error |-> "unauthorized", reason |-> getErrorCode(err)]
  IN  IF IsValidationError(err) /\ err.msg # <<>>
        THEN [error |-> response.error, reason |-> response.reason,
              message |-> err.msg]
        ELSE response

\* buildErrorResponse(err): the gin.H map of the 401 body
buildErrorResponse(err) ==
  LET response == [error |-> "unauthorized", reason |-> getErrorCode(err)]
  IN  IF /\ IsValidationError(err)
         /\ (err.code = ErrUnsupportedAlgorithm \/ err.code = ErrMalformedAlgorithmHeader)
         /\ err.msg # <<>>
        THEN [error |-> response.error, reason |-> response.reason,
              message |-> err.msg]
        ELSE response

---------------------------------------------------------------------------
(* Direct calls of package functions, as the package's unit tests make     *)
(* them: the function is applied to an argument drawn from a bounded set.  *)

ErrorCodes ==
  {ErrExpired, ErrInvalidSignature, ErrMissingToken, ErrMalformed,
   ErrAlgorithmMismatch, ErrNoneAlgorithm, ErrConfigError,
   ErrUnsupportedAlgorithm, ErrMalformedAlgorithmHeader}

\* the errors handed to buildErrorResponse: every code with and without a
\* message, and an error of another type
ErrorArgs ==
  {NewValidationError(c, m) :
     c \in ErrorCodes,
     m \in {<<>>, <<"algorithm ES256 not supported (available: HS256, RS256)">>}}
    \cup {PlainError(<<"boom">>)}

\* response := buildErrorResponse(err)
CallBuildErrorResponse ==
  /\ pc = "idle"
  /\ unit = NoUnit
  /\ \E err \in ErrorArgs :
       unit' = [fn |-> "buildErrorResponse", err |-> err,
                out |-> buildErrorResponse(err)]
  /\ UNCHANGED <<cfg, cfgErr, bufs, nameBufs, optsIn, pc, call, req, sink, procs>>

\* key, err := validateAlgorithm(token, cfg) for a token built by hand:
\* any alg member in the header, token.Method set by jwt.New
CallValidateAlgorithm ==
  /\ pc = "idle"
  /\ unit = NoUnit
  /\ \E alg \in HeaderAlgs \cup {Other}, method \in {"HS256", "RS256"},
        order \in IterOrders(DOMAIN cfg.validators) :
       unit' = [fn |-> "validateAlgorithm", alg |-> alg, method |-> method,
                out |-> validateAlgorithm(alg, method, cfg, order)]
  /\ UNCHANGED <<cfg, cfgErr, bufs, nameBufs, optsIn, pc, call, req, sink, procs>>

\* algs := cfg.AvailableAlgorithms(), the range over the map visiting the
\* keys in any order
CallAvailableAlgorithms ==
  /\ pc = "idle"
  /\ unit = NoUnit
  /\ \E order \in IterOrders(DOMAIN cfg.validators) :
       unit' = [fn |-> "AvailableAlgorithms", order |-> order,
                out |-> AvailableAlgorithms(cfg, order)]
  /\ UNCHANGED <<cfg, cfgErr, bufs, nameBufs, optsIn, pc, call, req, sink, procs>>

\* a Claims value with the given ExpiresAt and NotBefore
ClaimsAt(exp, nbf) ==
  [Subject |-> "alice", Issuer |-> "", Audience |-> "", JWTID |-> "",
   ExpiresAt |-> exp, NotBefore |-> nbf, IssuedAt |-> ZeroTime,
   Custom |-> EmptyMap]

\* err := validateClaims(claims, cfg), the clock reading T0
CallValidateClaims ==
  /\ pc = "idle"
  /\ unit = NoUnit
  /\ \E exp \in ExpInstants \cup {ZeroTime}, nbf \in NbfInstants \cup {ZeroTime} :
       unit' = [fn |-> "validateClaims", claims |-> ClaimsAt(exp, nbf),
                now |-> T0, out |-> validateClaims(ClaimsAt(exp, nbf), cfg, T0)]
  /\ UNCHANGED <<cfg, cfgErr, bufs, nameBufs, optsIn, pc, call, req, sink, procs>>

\* the test is done with the value
UnitReturn ==
  /\ unit # NoUnit
  /\ unit' = NoUnit
  /\ UNCHANGED <<cfg, cfgErr, bufs, nameBufs, optsIn, pc, call, req, sink, procs>>

---------------------------------------------------------------------------
(* Token strings, and the places a request carries them in *)

\* what a string without a dot is to a parser: one segment
NoSegments == Token(1, "b64", Absent, "b64", EmptyMap, Sig("b64", ""))

\* A token string is its characters (the payload and signature segments
\* shortened to a tag) together with what its segments decode to.

\* a valid HS256 token of alice, signed with K1:
\*   eyJhbGciOiJIUzI1NiJ9.pA.sK1
CredAlice ==
  [chars |->
     <<"e", "y", "J", "h", "b", "G", "c", "i", "O", "i", "J", "I", "U",
       "z", "I", "1", "N", "i", "J", "9", ".", "p", "A", ".", "s", "K",
       "1">>,
   tok |-> Token(3, "ok", Str("HS256"), "ok",
                 DefaultPayload, Sig("HS256", "K1"))]

\* a valid RS256 token of bob with every claim, signed by P1:
\*   eyJhbGciOiJSUzI1NiJ9.pB.sP1
CredBob ==
  [chars |->
     <<"e", "y", "J", "h", "b", "G", "c", "i", "O", "i", "J", "S", "U",
       "z", "I", "1", "N", "i", "J", "9", ".", "p", "B", ".", "s", "P",
       "1">>,
   tok |-> Token(3, "ok", Str("RS256"), "ok",
                 FullPayload, Sig("RS256", "P1"))]

\* an HS256 token with the empty payload {}:
\*   eyJhbGciOiJIUzI1NiJ9.pE.sK1
CredAnon ==
  [chars |->
     <<"e", "y", "J", "h", "b", "G", "c", "i", "O", "i", "J", "I", "U",
       "z", "I", "1", "N", "i", "J", "9", ".", "p", "E", ".", "s", "K",
       "1">>,
   tok |-> Token(3, "ok", Str("HS256"), "ok",
                 EmptyMap, Sig("HS256", "K1"))]

\* an HS256 token signed with another secret:
\*   eyJhbGciOiJIUzI1NiJ9.pB.sK2
CredForged ==
  [chars |->
     <<"e", "y", "J", "h", "b", "G", "c", "i", "O", "i", "J", "I", "U",
       "z", "I", "1", "N", "i", "J", "9", ".", "p", "B", ".", "s", "K",
       "2">>,
   tok |-> Token(3, "ok", Str("HS256"), "ok",
                 FullPayload, Sig("HS256", "K2"))]

\* an HS256 token that expired a second ago:
\*   eyJhbGciOiJIUzI1NiJ9.pX.sK1
CredExpired ==
  [chars |->
     <<"e", "y", "J", "h", "b", "G", "c", "i", "O", "i", "J", "I", "U",
       "z", "I", "1", "N", "i", "J", "9", ".", "p", "X", ".", "s", "K",
       "1">>,
   tok |-> Token(3, "ok", Str("HS256"), "ok",
                 Payload(Str("carol"), Num(T0 - 1), Absent, Absent), Sig("HS256", "K1"))]

\* a token that declares alg none:
\*   eyJhbGciOiJub25lIn0.pA.sK2
CredNone ==
  [chars |->
     <<"e", "y", "J", "h", "b", "G", "c", "i", "O", "i", "J", "u", "b",
       "2", "5", "l", "I", "n", "0", ".", "p", "A", ".", "s", "K", "2">>,
   tok |-> Token(3, "ok", Str("none"), "ok",
                 DefaultPayload, Sig("HS256", "K2"))]

\* a token that spells its alg hs256:
\*   eyJhbGciOiJoczI1NiJ9.pA.sK1
CredLower ==
  [chars |->
     <<"e", "y", "J", "h", "b", "G", "c", "i", "O", "i", "J", "o", "c",
       "z", "I", "1", "N", "i", "J", "9", ".", "p", "A", ".", "s", "K",
       "1">>,
   tok |-> Token(3, "ok", Str("hs256"), "ok",
                 DefaultPayload, Sig("HS256", "K1"))]

\* a token whose alg is the number 12345:
\*   eyJhbGciOjEyMzQ1fQ.pA.sK1
CredNumAlg ==
  [chars |->
     <<"e", "y", "J", "h", "b", "G", "c", "i", "O", "j", "E", "y", "M",
       "z", "Q", "1", "f", "Q", ".", "p", "A", ".", "s", "K", "1">>,
   tok |-> Token(3, "ok", Num(12345), "ok",
                 DefaultPayload, Sig("HS256", "K1"))]

\* an ES256 token:
\*   eyJhbGciOiJFUzI1NiJ9.pA.sP2
CredES256 ==
  [chars |->
     <<"e", "y", "J", "h", "b", "G", "c", "i", "O", "i", "J", "F", "U",
       "z", "I", "1", "N", "i", "J", "9", ".", "p", "A", ".", "s", "P",
       "2">>,
   tok |-> Token(3, "ok", Str("ES256"), "ok",
                 DefaultPayload, Sig("RS256", "P2"))]

\* a token whose header names the empty string as alg:
\*   eyJhbGciOiIifQ.pA.sK1
CredEmptyAlg ==
  [chars |->
     <<"e", "y", "J", "h", "b", "G", "c", "i", "O", "i", "I", "i", "f",
       "Q", ".", "p", "A", ".", "s", "K", "1">>,
   tok |-> Token(3, "ok", Str(""), "ok",
                 DefaultPayload, Sig("HS256", "K1"))]

\* the first two segments of a token, without signature segment:
\*   eyJhbGciOiJIUzI1NiJ9.pA
CredTwoSegments ==
  [chars |->
     <<"e", "y", "J", "h", "b", "G", "c", "i", "O", "i", "J", "I", "U",
       "z", "I", "1", "N", "i", "J", "9", ".", "p", "A">>,
   tok |-> Token(2, "ok", Str("HS256"), "ok",
                 DefaultPayload, Sig("b64", ""))]

\* text that is no token, three characters long
CredShort ==
  [chars |-> <<"a", "b", "c">>,
   tok |-> NoSegments]

\* text that is no token, eight characters long
CredEight ==
  [chars |-> <<"a", "b", "c", "d", "e", "f", "g", "h">>,
   tok |-> NoSegments]

\* text that is no token, nine characters long
CredNine ==
  [chars |-> <<"a", "b", "c", "d", "e", "f", "g", "h", "i">>,
   tok |-> NoSegments]

\* the empty string
CredEmpty == [chars |-> <<>>, tok |-> NoSegments]

Creds ==
  {CredAlice, CredBob, CredAnon, CredForged, CredExpired, CredNone,
   CredLower, CredNumAlg, CredES256, CredEmptyAlg, CredTwoSegments, CredShort,
   CredEight, CredNine}

\* the value of an Authorization header or of an authorization metadata
\* entry:
\*   scheme  the text before the first space (all of it if there is none)
\*   sep     whether there is a space
\*   pad     whether white space surrounds the text after the first space
\*   cred    the text after the first space, without that white space
AuthValue(scheme, sep, pad, cred) ==
  [scheme |-> scheme, sep |-> sep, pad |-> pad, cred |-> cred]

\* the empty string, which is also what Header.Get gives for no header
EmptyValue == AuthValue("", FALSE, FALSE, CredEmpty)

AuthValues ==
  {EmptyValue,
   AuthValue("Bearer", FALSE, FALSE, CredEmpty),
   AuthValue("Bearer", TRUE, FALSE, CredEmpty),
   AuthValue("Bearer", TRUE, TRUE, CredEmpty),
   AuthValue("Basic", TRUE, FALSE, CredAlice),
   AuthValue("bearer", TRUE, FALSE, CredAlice),
   AuthValue("BEARER", TRUE, TRUE, CredAlice)}
    \cup {AuthValue("Bearer", TRUE, FALSE, c) : c \in Creds}

\* strings.ToLower on the schemes above
ToLower(s) ==
  IF s \in {"Bearer", "bearer", "BEARER"} THEN "bearer"
  ELSE IF s = "Basic" THEN "basic"
  ELSE s

\* strings.TrimSpace of the text after the first space
TrimSpace(v) == v.cred

\* the cookies of a request: values by cookie name
CookieJars ==
  {EmptyMap,
   [auth_token |-> AuthValue("", FALSE, FALSE, CredAlice)],
   [auth_token |-> AuthValue("", FALSE, TRUE, CredEmpty)]}

\* an HTTP request: its Authorization header, cookies and X-Request-ID
GinRequests ==
  {[auth |-> a, cookies |-> k, rid |-> i] :
     a \in AuthValues, k \in CookieJars, i \in {"", "rid-1"}}

\* a gRPC call: whether its context carries incoming metadata, and the
\* values of the authorization key in it
GRPCRequests ==
  {[hasMD |-> FALSE, authorization |-> <<>>],
   [hasMD |-> TRUE, authorization |-> <<>>],
   [hasMD |-> TRUE,
    authorization |-> <<AuthValue("Bearer", TRUE, FALSE, CredAlice),
                        AuthValue("Bearer", TRUE, FALSE, CredForged)>>]}
    \cup {[hasMD |-> TRUE, authorization |-> <<a>>] : a \in AuthValues}

\* (token, err) of the extraction functions
Extracted(token) == [token |-> token, err |-> NilErr]
NotExtracted(code, message) ==
  [token |-> CredEmpty, err |-> NewValidationError(code, message)]

extractTokenFromHeader(r) ==
  LET authHeader == r.auth
  IN  IF authHeader = EmptyValue
        THEN NotExtracted(ErrMissingToken, <<"authorization header not found">>)
      ELSE IF ~authHeader.sep \/ ToLower(authHeader.scheme) # "bearer"
        THEN NotExtracted(ErrMalformed,
               <<"invalid authorization header format, expected 'Bearer <token>'">>)
      ELSE IF TrimSpace(authHeader) = CredEmpty
        THEN NotExtracted(ErrMissingToken, <<"token is empty">>)
      ELSE Extracted(TrimSpace(authHeader))

extractTokenFromCookie(r, cookieName) ==
  IF cookieName \notin DOMAIN r.cookies
    THEN NotExtracted(ErrMissingToken, <<"cookie not found">>)
  ELSE IF TrimSpace(r.cookies[cookieName]) = CredEmpty
    THEN NotExtracted(ErrMissingToken, <<"cookie value is empty">>)
  ELSE Extracted(TrimSpace(r.cookies[cookieName]))

\* extractToken that returns the error of the cookie when both sources fail
extractToken_CookieError(r, c) ==
  LET fromHeader == extractTokenFromHeader(r)
  IN  IF fromHeader.err = NilErr THEN fromHeader
      ELSE IF CookieName(c) # ""
        THEN extractTokenFromCookie(r, CookieName(c))
      ELSE fromHeader

\* extractToken(r, cfg): the header first, then the configured cookie
extractToken(r, c) ==
  LET fromHeader == extractTokenFromHeader(r)
  IN  IF fromHeader.err = NilErr THEN fromHeader
      ELSE IF CookieName(c) # ""
                /\ extractTokenFromCookie(r, CookieName(c)).err = NilErr
        THEN extractTokenFromCookie(r, CookieName(c))
      ELSE fromHeader

\* extractTokenFromMetadata(md), values being md.Get("authorization")
extractTokenFromMetadata(values) ==
  IF Len(values) = 0
    THEN NotExtracted(ErrMissingToken, <<"authorization metadata not found">>)
  ELSE
    LET authHeader == values[1]
    IN  IF ~authHeader.sep \/ ToLower(authHeader.scheme) # "bearer"
          THEN NotExtracted(ErrMalformed,
                 <<"invalid authorization format, expected 'Bearer <token>'">>)
        ELSE IF TrimSpace(authHeader) = CredEmpty
          THEN NotExtracted(ErrMissingToken, <<"token is empty">>)
        ELSE Extracted(TrimSpace(authHeader))

---------------------------------------------------------------------------
(* Security events and the logger *)

\* extractAlgorithmFromToken(token): the alg of the header, or "MALFORMED"
extractAlgorithmFromToken(token) ==
  IF token.tok.segs < 2 THEN "MALFORMED"
  ELSE IF token.tok.header # "ok" THEN "MALFORMED"
  ELSE IF token.tok.alg.t = "str" THEN token.tok.alg.s
  ELSE "MALFORMED"

\* the length of the token prefix redactToken lets through
PreviewLen == 8

redactToken(token) ==
  IF Len(token) = 0 THEN <<>>
  ELSE IF Len(token) <= PreviewLen THEN <<"*", "*", "*">>
  ELSE SubSeq(token, 1, PreviewLen) \o <<".", ".", ".">>

\* the SecurityEvent struct; times are in seconds
SecurityEvent(type, now, requestID, userID, algorithm, reason, preview) ==
  [EventType |-> type, Timestamp |-> now, RequestID |-> requestID,
   UserID |-> userID, Algorithm |-> algorithm, FailureReason |-> reason,
   TokenPreview |-> preview, Latency |-> 0]

\* SecurityEvent.LogValue: the group of attributes a slog handler writes
LogValue(e) ==
  [event |-> e.EventType, timestamp |-> e.Timestamp,
   request_id |-> e.RequestID, user_id |-> e.UserID,
   algorithm |-> e.Algorithm, failure_reason |-> e.FailureReason,
   token |-> redactToken(e.TokenPreview), latency |-> e.Latency]

\* logSecurityEvent(logger, event): the calls made on the logger
logSecurityEvent(logger, event) ==
  IF logger = "nil" THEN <<>>
  ELSE IF event.EventType = "failure"
    THEN <<[level |-> "WARN", msg |-> "authentication failed",
            auth_event |-> event]>>
  ELSE <<[level |-> "INFO", msg |-> "authentication succeeded",
          auth_event |-> event]>>

\* what a handler that accepts the record writes for a call on the logger
Written(logCall) ==
  [level |-> logCall.level, msg |-> logCall.msg,
   auth_event |-> LogValue(logCall.auth_event)]

logAuthSuccess(c, requestID, claims, token, now) ==
  IF Logger(c) = "nil" THEN <<>>
  ELSE logSecurityEvent(Logger(c),
         SecurityEvent("success", now, requestID, claims.Subject,
                       extractAlgorithmFromToken(token), "", token.chars))

\* logAuthFailure that stays silent when there is no token to report
logAuthFailure_SilentWithoutToken(c, requestID, token, err, now) ==
  IF Logger(c) = "nil" \/ token = CredEmpty THEN <<>>
  ELSE logSecurityEvent(Logger(c),
         SecurityEvent("failure", now, requestID, "",
                       extractAlgorithmFromToken(token), getErrorCode(err),
                       token.chars))

logAuthFailure(c, requestID, token, err, now) ==
  IF Logger(c) = "nil" THEN <<>>
  ELSE logSecurityEvent(Logger(c),
         SecurityEvent("failure", now, requestID, "",
                       extractAlgorithmFromToken(token), getErrorCode(err),
                       token.chars))

logAuthSuccessGRPC(c, requestID, claims, token, now) ==
  IF Logger(c) = "nil" THEN <<>>
  ELSE logSecurityEvent(Logger(c),
         SecurityEvent("success", now, requestID, claims.Subject,
                       extractAlgorithmFromToken(token), "", token.chars))

logAuthFailureGRPC(c, requestID, token, err, now) ==
  IF Logger(c) = "nil" THEN <<>>
  ELSE logSecurityEvent(Logger(c),
         SecurityEvent("failure", now, requestID, "",
                       extractAlgorithmFromToken(token), getErrorCode(err),
                       token.chars))

---------------------------------------------------------------------------
(* The request context *)

claimsContextKey == "github.com/user/vibrant-auth-middleware-go/jwtauth:claims"
requestIDContextKey == "github.com/user/vibrant-auth-middleware-go/jwtauth:request_id"

\* a context with no value
EmptyCtx == EmptyMap

WithClaims(ctx, claims) == MapPut(ctx, claimsContextKey, claims)

GetClaims(ctx) ==
  IF claimsContextKey \in DOMAIN ctx
    THEN [claims |-> ctx[claimsContextKey], ok |-> TRUE]
    ELSE [claims |-> NilClaims, ok |-> FALSE]

WithRequestID(ctx, requestID) == MapPut(ctx, requestIDContextKey, requestID)

GetRequestID(ctx) ==
  IF requestIDContextKey \in DOMAIN ctx
    THEN [id |-> ctx[requestIDContextKey], ok |-> TRUE]
    ELSE [id |-> "", ok |-> FALSE]

---------------------------------------------------------------------------
(* The two adapters: the Gin middleware and the gRPC unary interceptor *)

\* uuid.New().String()
NewUUID == "uuid-1"

\* what an adapter does to the request: the status and body (Gin) or the
\* status code and message (gRPC) it answers with, how many times it runs
\* the downstream handler, and the context it runs it with
Outcome(status, body, message, handlerCalls, ctx) ==
  [status |-> status, body |-> body, message |-> message,
   handlerCalls |-> handlerCalls, ctx |-> ctx]

\* c.JSON(code, body) with no abort: the chain goes on
AbortWithStatusJSON_NoAbort(code, body) == Outcome(code, body, "", 1, EmptyCtx)

\* c.AbortWithStatusJSON(code, body): the chain stops
AbortWithStatusJSON(code, body) == Outcome(code, body, "", 0, EmptyCtx)

\* c.Next() with the request context ctx; the middleware sets no status
GinNext(ctx) == Outcome(0, EmptyMap, "", 1, ctx)

\* the gRPC status codes codes.OK and codes.Unauthenticated
OK == 0
Unauthenticated == 16

\* return nil, status.Error(code, message)
StatusError(code, message) == Outcome(code, EmptyMap, message, 0, EmptyCtx)

\* return handler(ctx, req)
CallHandler(ctx) == Outcome(OK, EmptyMap, "", 1, ctx)

\* parseAndValidateJWT was not reached
NoVal == [called |-> FALSE]
Val(res) == [called |-> TRUE, res |-> res]

\* what a run of an adapter comes to: the token it extracted, the result
\* of parseAndValidateJWT, the request id, the calls it makes on the
\* logger and, after them, the outcome
Run(token, val, requestID, logs, out) ==
  [token |-> token, val |-> val, requestID |-> requestID, logs |-> logs,
   out |-> out]

\* the handler returned by JWTAuth(cfg), run on request r
JWTAuth(r, c, heap, now, nowV, order) ==
  LET requestID == IF r.rid = "" THEN NewUUID ELSE r.rid
      ex == extractToken(r, c)
  IN  IF ex.err # NilErr
        THEN Run(ex.token, NoVal, requestID,
                 logAuthFailure(c, requestID, ex.token, ex.err, now),
                 AbortWithStatusJSON(401, buildErrorResponse(ex.err)))
      ELSE
        LET v == parseAndValidateJWT(ex.token.tok, c, heap, now, nowV, order)
        IN  IF v.err # NilErr
              THEN Run(ex.token, Val(v), requestID,
                       logAuthFailure(c, requestID, ex.token, v.err, now),
                       AbortWithStatusJSON(401, buildErrorResponse(v.err)))
            ELSE Run(ex.token, Val(v), requestID,
                     logAuthSuccess(c, requestID, v.claims, ex.token, now),
                     GinNext(WithRequestID(WithClaims(EmptyCtx, v.claims),
                                           requestID)))

\* the interceptor returned by UnaryServerInterceptor(cfg), run on call r
UnaryServerInterceptor(r, c, heap, now, nowV, order) ==
  LET requestID == NewUUID
  IN  IF ~r.hasMD
        THEN Run(CredEmpty, NoVal, requestID,
                 logAuthFailureGRPC(c, requestID, CredEmpty,
                   NewValidationError(ErrMissingToken, <<"metadata not found">>),
                   now),
                 StatusError(Unauthenticated, "metadata not found"))
      ELSE
        LET ex == extractTokenFromMetadata(r.authorization)
        IN  IF ex.err # NilErr
              THEN Run(ex.token, NoVal, requestID,
                       logAuthFailureGRPC(c, requestID, ex.token, ex.err, now),
                       StatusError(Unauthenticated, getErrorCode(ex.err)))
            ELSE
              LET v == parseAndValidateJWT(ex.token.tok, c, heap, now, nowV,
                                           order)
              IN  IF v.err # NilErr
                    THEN Run(ex.token, Val(v), requestID,
                             logAuthFailureGRPC(c, requestID, ex.token, v.err,
                                                now),
                             StatusError(Unauthenticated, getErrorCode(v.err)))
                  ELSE Run(ex.token, Val(v), requestID,
                           logAuthSuccessGRPC(c, requestID, v.claims, ex.token,
                                              now),
                           CallHandler(WithRequestID(WithClaims(EmptyCtx, v.claims),
                                                     requestID)))

\* The request in hand.  A run with no logger is one step.  A run with a
\* logger stops inside the call on the logger ("logging"), which the sink
\* either returns from or never returns from ("blocked"); the adapter
\* answers once the call has returned.
Handling(adapter, r, nowV, run) ==
  [phase |-> IF run.logs = <<>> THEN "answered" ELSE "logging",
   adapter |-> adapter, in |-> r, nowV |-> nowV, token |-> run.token,
   val |-> run.val, requestID |-> run.requestID, logs |-> run.logs,
   out |-> run.out]

\* an HTTP request reaches the Gin middleware
GinRequest ==
  /\ pc = "idle"
  /\ req = NoReq
  /\ \E r \in GinRequests, nowV \in T0..(T0 + MaxDrift),
        order \in IterOrders(DOMAIN cfg.validators) :
       req' = Handling("gin", r, nowV, JWTAuth(r, cfg, bufs, T0, nowV, order))
  /\ UNCHANGED <<cfg, cfgErr, bufs, nameBufs, optsIn, pc, call, sink, procs, unit>>

\* a unary call reaches the gRPC interceptor
GRPCRequest ==
  /\ pc = "idle"
  /\ req = NoReq
  /\ \E r \in GRPCRequests, nowV \in T0..(T0 + MaxDrift),
        order \in IterOrders(DOMAIN cfg.validators) :
       req' = Handling("grpc", r, nowV,
                       UnaryServerInterceptor(r, cfg, bufs, T0, nowV, order))
  /\ UNCHANGED <<cfg, cfgErr, bufs, nameBufs, optsIn, pc, call, sink, procs, unit>>

\* logger.Warn / logger.Info returns: the slog handler wrote the record,
\* or dropped it (its level filters it out, or its Handle returned an
\* error, which slog.Logger ignores); the adapter goes on to its answer
LoggerReturns ==
  /\ req.phase = "logging"
  /\ \E wrote \in BOOLEAN :
       sink' = IF wrote THEN Append(sink, Written(req.logs[1])) ELSE sink
  /\ req' = [req EXCEPT !.phase = "answered"]
  /\ UNCHANGED <<cfg, cfgErr, bufs, nameBufs, optsIn, pc, call, procs, unit>>

\* the slog handler blocks for good (a writer that never returns): the
\* goroutine of the request stays inside the call
LoggerHangs ==
  /\ req.phase = "logging"
  /\ req' = [req EXCEPT !.phase = "blocked"]
  /\ UNCHANGED <<cfg, cfgErr, bufs, nameBufs, optsIn, pc, call, sink, procs, unit>>

\* the answer has gone out; the server takes the next request
RequestDone ==
  /\ req.phase = "answered"
  /\ req' = NoReq
  /\ sink' = <<>>
  /\ UNCHANGED <<cfg, cfgErr, bufs, nameBufs, optsIn, pc, call, procs, unit>>

NextReq ==
  \/ Construct
  \/ Serve
  \/ GinRequest
  \/ GRPCRequest
  \/ LoggerReturns
  \/ LoggerHangs
  \/ RequestDone

SpecReq == Init /\ [][NextReq]_vars

\* every call on a logger whose handler is able to return does return, and
\* the adapter is scheduled
SpecReqLive ==
  SpecReq /\ WF_vars(LoggerReturns) /\ WF_vars(RequestDone)

---------------------------------------------------------------------------
(* Concurrent validations: goroutines that call parseAndValidateJWT with   *)
(* the same *Config.  A call is two steps, the reads of the Config it      *)
(* makes in the key callback and the reads it makes afterwards, so that    *)
(* steps of other calls fall between them.                                 *)

ConcTokens ==
  {Token(3, "ok", Str("HS256"), "ok", DefaultPayload, Sig("HS256", "K1")),
   Token(3, "ok", Str("RS256"), "ok", FullPayload, Sig("RS256", "P1")),
   Token(3, "ok", Str("HS256"), "ok", FullPayload, Sig("HS256", "K2")),
   Token(3, "ok", Str("HS256"), "ok",
         Payload(Str("carol"), Num(T0 - 1), Absent, Absent), Sig("HS256", "K1"))}

\* the addresses the allocator can hand out for a Claims object
ClaimsAddrs == 1..Cardinality(ProcIds)

\* claims := &Claims{...}: an address no live Claims object has
NewClaims(ps) ==
  CHOOSE a \in ClaimsAddrs :
    /\ \A q \in DOMAIN ps : ps[q].at = "done" => ps[q].addr # a
    /\ \A b \in ClaimsAddrs :
         (\A q \in DOMAIN ps : ps[q].at = "done" => ps[q].addr # b) => a <= b

\* the return values kept in one place for all goroutines
StoreResult_Shared(ps, p, r, a) ==
  [q \in DOMAIN ps |->
     IF q = p \/ ps[q].at = "done"
       THEN [at |-> "done", tok |-> ps[p].tok, nowV |-> ps[p].nowV,
             res |-> r, addr |-> a]
       ELSE ps[q]]

\* the return values of a call are locals of its own goroutine
StoreResult(ps, p, r, a) ==
  [ps EXCEPT ![p] = [at |-> "done", tok |-> ps[p].tok, nowV |-> ps[p].nowV,
                     res |-> r, addr |-> a]]

\* goroutine p enters parseAndValidateJWT; jwt.Parse decodes the token and
\* calls validateAlgorithm, which reads cfg.validators
CallBegin(p) ==
  /\ pc = "idle"
  /\ procs[p].at = "idle"
  /\ \E tok \in ConcTokens, nowV \in T0..(T0 + MaxDrift),
        order \in IterOrders(DOMAIN cfg.validators) :
       procs' = [procs EXCEPT ![p] =
                   [at |-> "keyed", tok |-> tok, nowV |-> nowV,
                    got |-> validateAlgorithm(tok.alg, tok.alg.s, cfg, order)]]
  /\ UNCHANGED <<cfg, cfgErr, bufs, nameBufs, optsIn, pc, call, req, sink, unit>>

\* the rest of the call of p: verification with the key bytes, the claim
\* checks against cfg.clockSkewLeeway and cfg.requiredClaims, the return
CallFinish(p) ==
  /\ procs[p].at = "keyed"
  /\ LET r == parseAfterKeyFunc(procs[p].tok, procs[p].got, cfg, bufs, T0,
                                procs[p].nowV)
         a == IF r.err = NilErr THEN NewClaims(procs) ELSE 0
     IN  procs' = StoreResult(procs, p, r, a)
  /\ UNCHANGED <<cfg, cfgErr, bufs, nameBufs, optsIn, pc, call, req, sink, unit>>

\* the caller of p drops the result
CallReturn(p) ==
  /\ procs[p].at = "done"
  /\ procs' = [procs EXCEPT ![p] = IdleProc]
  /\ UNCHANGED <<cfg, cfgErr, bufs, nameBufs, optsIn, pc, call, req, sink, unit>>

NextConc ==
  \/ Construct
  \/ Serve
  \/ \E p \in ProcIds : CallBegin(p)
  \/ \E p \in ProcIds : CallFinish(p)
  \/ \E p \in ProcIds : CallReturn(p)

SpecConc == Init /\ [][NextConc]_vars

---------------------------------------------------------------------------
(* The direct calls together *)

\* token, err := extractToken(r, cfg)
CallExtractToken ==
  /\ pc = "idle"
  /\ unit = NoUnit
  /\ \E r \in GinRequests :
       unit' = [fn |-> "extractToken", r |-> r, out |-> extractToken(r, cfg)]
  /\ UNCHANGED <<cfg, cfgErr, bufs, nameBufs, optsIn, pc, call, req, sink, procs>>

NextUnit ==
  \/ Construct
  \/ Serve
  \/ CallBuildErrorResponse
  \/ CallValidateAlgorithm
  \/ CallAvailableAlgorithms
  \/ CallValidateClaims
  \/ CallExtractToken
  \/ UnitReturn

SpecUnit == Init /\ [][NextUnit]_vars

---------------------------------------------------------------------------
(* One request followed statement by statement through JWTAuth and         *)
(* parseAndValidateJWT.  call.stage is the point the goroutine has reached: *)
(*   Start              JWTAuth entered                                     *)
(*   TokenExtracted     extractToken returned a token                       *)
(*   AlgorithmRouted    jwt.Parse decoded the segments and its key callback *)
(*                      (validateAlgorithm) returned a key                  *)
(*   SignatureVerified  the signing method's Verify returned nil            *)
(*   ClaimsValidated    the library's and the package's claim checks passed *)
(*   Success / Failed   parseAndValidateJWT (or extractToken) has returned  *)

Stages ==
  <<"Start", "TokenExtracted", "AlgorithmRouted", "SignatureVerified",
    "ClaimsValidated", "Success">>

\* nothing returned yet
NoRes == [claims |-> NilClaims, err |-> NilErr]
NoGot == [key |-> NilKey, err |-> NilErr]

PipeRequests == {r \in GinRequests : r.rid = ""}

\* the goroutine leaves the pipeline with the return values res
Terminate(c, stage, res) == [c EXCEPT !.stage = stage, !.res = res]

\* a request enters the handler returned by JWTAuth
PipeBegin ==
  /\ pc = "idle"
  /\ call = NoCall
  /\ \E r \in PipeRequests :
       call' = [active |-> TRUE, stage |-> "Start", r |-> r,
                token |-> CredEmpty, got |-> NoGot, nowV |-> T0,
                res |-> NoRes]
  /\ pc' = "running"
  /\ UNCHANGED <<cfg, cfgErr, bufs, nameBufs, optsIn, req, sink, procs, unit>>

\* token, err := extractToken(c.Request, cfg)
PipeExtract ==
  /\ call # NoCall /\ call.stage = "Start"
  /\ LET ex == extractToken(call.r, cfg)
     IN  call' = IF ex.err # NilErr
                   THEN Terminate(call, "Failed",
                                  [claims |-> NilClaims, err |-> ex.err])
                 ELSE [call EXCEPT !.stage = "TokenExtracted",
                                   !.token = ex.token]
  /\ UNCHANGED <<cfg, cfgErr, bufs, nameBufs, optsIn, pc, req, sink, procs, unit>>

\* jwt.Parse up to the return of the key callback: the segments are
\* decoded, the signing method is looked up, validateAlgorithm is called
PipeRoute ==
  /\ call # NoCall /\ call.stage = "TokenExtracted"
  /\ \E order \in IterOrders(DOMAIN cfg.validators) :
       LET tok == call.token.tok
           got == validateAlgorithm(tok.alg, tok.alg.s, cfg, order)
       IN  call' =
             IF ParseUnverified(tok) # NoLibErr \/ tok.sig.m = "b64"
               THEN Terminate(call, "Failed",
                              parseAfterKeyFunc(tok, NoGot, cfg, bufs, T0, T0))
             ELSE IF got.err # NilErr
               THEN Terminate(call, "Failed",
                              parseAfterKeyFunc(tok, got, cfg, bufs, T0, T0))
             ELSE [call EXCEPT !.stage = "AlgorithmRouted", !.got = got]
  /\ UNCHANGED <<cfg, cfgErr, bufs, nameBufs, optsIn, pc, req, sink, procs, unit>>

\* the signing method verifies the signature with the key of the callback
PipeVerify ==
  /\ call # NoCall /\ call.stage = "AlgorithmRouted"
  /\ LET tok == call.token.tok
     IN  call' =
           IF Verify(tok.alg.s, tok.sig, KeyValue(call.got.key, bufs)) # NoLibErr
             THEN Terminate(call, "Failed",
                            parseAfterKeyFunc(tok, call.got, cfg, bufs, T0, T0))
           ELSE [call EXCEPT !.stage = "SignatureVerified"]
  /\ UNCHANGED <<cfg, cfgErr, bufs, nameBufs, optsIn, pc, req, sink, procs, unit>>

\* the claim validation of the library, then validateClaims (which reads
\* the clock again) and validateRequiredClaims
PipeValidateClaims ==
  /\ call # NoCall /\ call.stage = "SignatureVerified"
  /\ \E nowV \in T0..(T0 + MaxDrift) :
       LET res == parseAfterKeyFunc(call.token.tok, call.got, cfg, bufs, T0, nowV)
       IN  call' = IF res.err # NilErr THEN Terminate(call, "Failed", res)
                   ELSE [call EXCEPT !.stage = "ClaimsValidated",
                                     !.nowV = nowV]
  /\ UNCHANGED <<cfg, cfgErr, bufs, nameBufs, optsIn, pc, req, sink, procs, unit>>

\* return claims, nil
PipeSucceed ==
  /\ call # NoCall /\ call.stage = "ClaimsValidated"
  /\ call' = Terminate(call, "Success",
                       parseAfterKeyFunc(call.token.tok, call.got, cfg, bufs,
                                         T0, call.nowV))
  /\ UNCHANGED <<cfg, cfgErr, bufs, nameBufs, optsIn, pc, req, sink, procs, unit>>

\* the handler is done with the request
PipeEnd ==
  /\ call # NoCall /\ call.stage \in {"Success", "Failed"}
  /\ call' = NoCall
  /\ pc' = "idle"
  /\ UNCHANGED <<cfg, cfgErr, bufs, nameBufs, optsIn, req, sink, procs, unit>>

NextPipe ==
  \/ Construct
  \/ Serve
  \/ PipeBegin
  \/ PipeExtract
  \/ PipeRoute
  \/ PipeVerify
  \/ PipeValidateClaims
  \/ PipeSucceed
  \/ PipeEnd

SpecPipe == Init /\ [][NextPipe]_vars

\* the goroutine of a request is always scheduled again: validation calls
\* nothing that blocks
SpecPipeLive ==
  /\ SpecPipe
  /\ WF_vars(PipeExtract)
  /\ WF_vars(PipeRoute)
  /\ WF_vars(PipeVerify)
  /\ WF_vars(PipeValidateClaims)
  /\ WF_vars(PipeSucceed)

---------------------------------------------------------------------------
(* Notions the properties are stated with *)

Returned == pc = "returned"

\* the token has three segments and a header that decodes to a JSON object
HeaderDecodes(tok) == tok.segs = 3 /\ tok.header = "ok"

\* the header names algorithm a
Declares(tok, a) == HeaderDecodes(tok) /\ tok.alg = Str(a)

\* all three segments decode
WellFormed(tok) == HeaderDecodes(tok) /\ tok.body = "ok" /\ tok.sig.m # "b64"

\* the key material the registry c holds for algorithm a
KeyMaterial(c, heap, a) ==
  LET k == c.validators[a].signingKey
  IN  IF k.kind = "bytes" THEN heap[k.ref].val ELSE k.ref

\* the signature of tok was produced, under method a, with the key the
\* registry holds for a
ProducedWithKeyOf(tok, c, heap, a) == tok.sig = Sig(a, KeyMaterial(c, heap, a))

Registered(c, a) == a \in DOMAIN c.validators

HasNum(p, k) == k \in DOMAIN p /\ p[k].t = "num" /\ p[k].n # 0

\* every required claim name is a key of the payload
RequiredPresent(c, p) ==
  \A i \in DOMAIN c.requiredClaims : c.requiredClaims[i] \in DOMAIN p

\* exp and nbf lie in the window widened by the skew on both ends
InWindow(p, skew, now) ==
  /\ "exp" \in DOMAIN p => HasNum(p, "exp") /\ now <= p["exp"].n + skew
  /\ "nbf" \in DOMAIN p => HasNum(p, "nbf") /\ now >= p["nbf"].n - skew

\* the Claims cl carry what the payload p says
ClaimsMatch(cl, p) ==
  LET S(k) == IF k \in DOMAIN p /\ p[k].t = "str" THEN p[k].s ELSE ""
      N(k) == IF HasNum(p, k) THEN p[k].n ELSE ZeroTime
  IN  /\ cl # NilClaims
      /\ cl.Subject = S("sub") /\ cl.Issuer = S("iss")
      /\ cl.Audience = S("aud") /\ cl.JWTID = S("jti")
      /\ cl.ExpiresAt = N("exp") /\ cl.NotBefore = N("nbf")
      /\ cl.IssuedAt = N("iat")
      /\ DOMAIN cl.Custom = (DOMAIN p) \ StandardClaims
      /\ \A k \in DOMAIN cl.Custom : cl.Custom[k] = p[k]

Accepted == call.res.err = NilErr /\ call.res.claims # NilClaims
RejectedWith(code) == call.res.claims = NilClaims /\ call.res.err.code = code

\* a token that passes every check except, possibly, the ones on the
\* claims named in except
OtherwiseValid(tok, except) ==
  /\ WellFormed(tok)
  /\ tok.alg.t = "str" /\ Registered(cfg, tok.alg.s)
  /\ ProducedWithKeyOf(tok, cfg, bufs, tok.alg.s)
  /\ RequiredPresent(cfg, tok.payload)
  /\ \A k \in {"exp", "nbf"} \ except :
       k \in DOMAIN tok.payload =>
         /\ HasNum(tok.payload, k)
         /\ k = "exp" => call.now < tok.payload[k].n
         /\ k = "nbf" => call.now >= tok.payload[k].n

---------------------------------------------------------------------------
(* Properties *)

\* C1 (as stated): a token whose header declares an algorithm A of the
\* registry, and whose signature was not produced with the registry's key
\* for A, is rejected with INVALID_SIGNATURE.
C1_WrongKeyInvalidSignature ==
  (Returned /\ HeaderDecodes(call.tok) /\ call.tok.alg.t = "str"
     /\ Registered(cfg, call.tok.alg.s)
     /\ ~ProducedWithKeyOf(call.tok, cfg, bufs, call.tok.alg.s))
    => RejectedWith(ErrInvalidSignature)

\* C1 (amended): such a token is never accepted, and when its payload
\* segment decodes to a JSON object the code is INVALID_SIGNATURE.
C1_WrongKeyRejected ==
  (Returned /\ HeaderDecodes(call.tok) /\ call.tok.alg.t = "str"
     /\ Registered(cfg, call.tok.alg.s)
     /\ ~ProducedWithKeyOf(call.tok, cfg, bufs, call.tok.alg.s))
    => /\ call.res.claims = NilClaims
       /\ call.res.err # NilErr
       /\ call.tok.body = "ok" => call.res.err.code = ErrInvalidSignature

\* an RS256 token signed by another key pair, against a registry with RS256
C1_Witness ==
  /\ Returned /\ WellFormed(call.tok)
  /\ call.tok.alg = Str("RS256") /\ Registered(cfg, "RS256")
  /\ call.tok.sig = Sig("RS256", "P2")
  /\ RejectedWith(ErrInvalidSignature)

\* C2: a token whose header alg is "none", "None" or "NONE" is rejected
\* with NONE_ALGORITHM, whatever the registry, payload and signature.
C2_NoneRejectedAsNoneAlgorithm ==
  (Returned /\ HeaderDecodes(call.tok) /\ call.tok.alg.t = "str"
     /\ IsNoneVariant(call.tok.alg.s) /\ WellFormed(call.tok))
    => RejectedWith(ErrNoneAlgorithm)

\* C3: a token signed with the registry's credential for its declared
\* algorithm, inside the time window and with all required claims, is
\* accepted with Claims equal to its payload.
C3_Soundness ==
  (Returned /\ WellFormed(call.tok) /\ call.tok.alg.t = "str"
     /\ Registered(cfg, call.tok.alg.s)
     /\ ProducedWithKeyOf(call.tok, cfg, bufs, call.tok.alg.s)
     /\ InWindow(call.tok.payload, cfg.clockSkewLeeway, call.now)
     /\ RequiredPresent(cfg, call.tok.payload))
    => call.res.err = NilErr /\ ClaimsMatch(call.res.claims, call.tok.payload)

\* C4: an alg string that is no none-variant and no key of the registry is
\* rejected with UNSUPPORTED_ALGORITHM and the message that lists exactly
\* the configured names in ascending order.
C4_UnsupportedListsAlgorithms ==
  (Returned /\ WellFormed(call.tok) /\ call.tok.alg.t = "str"
     /\ ~IsNoneVariant(call.tok.alg.s) /\ ~Registered(cfg, call.tok.alg.s))
    => /\ RejectedWith(ErrUnsupportedAlgorithm)
       /\ call.res.err.msg =
            <<"algorithm ", call.tok.alg.s, " not supported (available: ">>
              \o (IF DOMAIN cfg.validators = {"HS256"} THEN <<"HS256">>
                  ELSE IF DOMAIN cfg.validators = {"RS256"} THEN <<"RS256">>
                  ELSE <<"HS256", ", ", "RS256">>)
              \o <<")">>

\* C5: alg "hs256" against a registry configured only for "HS256" is
\* rejected, with UNSUPPORTED_ALGORITHM.
C5_CaseSensitiveUnsupported ==
  (Returned /\ WellFormed(call.tok) /\ call.tok.alg = Str("hs256")
     /\ DOMAIN cfg.validators = {"HS256"})
    => RejectedWith(ErrUnsupportedAlgorithm)

\* C6: an otherwise valid token is accepted when exp >= now - skew and is
\* rejected with EXPIRED when exp = now - skew - 1.
C6_ExpirySkewBoundary ==
  (Returned /\ OtherwiseValid(call.tok, {"exp"})
     /\ HasNum(call.tok.payload, "exp"))
    => LET exp == call.tok.payload["exp"].n
           S == cfg.clockSkewLeeway
       IN  /\ exp >= call.now - S => Accepted
           /\ exp = call.now - S - 1 => RejectedWith(ErrExpired)

\* C7: an otherwise valid token with now < nbf - skew is rejected with
\* EXPIRED, and one with nbf - skew <= now is not rejected for its nbf.
C7_NotBeforeSkewBoundary ==
  (Returned /\ OtherwiseValid(call.tok, {"nbf"})
     /\ HasNum(call.tok.payload, "nbf"))
    => LET nbf == call.tok.payload["nbf"].n
           S == cfg.clockSkewLeeway
       IN  /\ call.now < nbf - S => RejectedWith(ErrExpired)
           /\ nbf - S <= call.now => Accepted

\* the options of the list opts that make NewConfig fail
BadOption(o) ==
  \/ o.op = "WithHS256" /\ bufs[o.s].len < MinSecretLen
  \/ o.op = "WithRS256" /\ o.s = "nil"
  \/ o.op = "WithClockSkew" /\ o.n < 0

NoAlgorithmOption(opts) ==
  \A i \in DOMAIN opts : opts[i].op \notin {"WithHS256", "WithRS256"}

\* C8: NewConfig returns a Config iff it returns no error; with no
\* algorithm option, a short HS256 secret, a nil RS256 key or a negative
\* skew it returns (nil, CONFIG_ERROR).
C8_ConfigFailFast ==
  /\ pc # "start" => ((cfg # NilCfg) <=> (cfgErr = NilErr))
  /\ (pc = "constructed"
        /\ (NoAlgorithmOption(optsIn) \/ \E i \in DOMAIN optsIn : BadOption(optsIn[i])))
       => cfg = NilCfg /\ cfgErr.code = ErrConfigError

\* a valid algorithm option followed by a short secret: nothing is returned
C8_Witness ==
  /\ pc = "constructed"
  /\ Len(optsIn) = 2
  /\ optsIn[1] = Opt("WithRS256", "P1", 0)
  /\ optsIn[2] = Opt("WithHS256", "b2", 0)
  /\ cfg = NilCfg /\ cfgErr.code = ErrConfigError

\* C9: every Config NewConfig returned has at least one validator, none
\* named like "none", a key and a method in every entry, an HS256 secret of
\* at least 32 bytes, and a skew >= 0.
C9_RegistryInvariant ==
  cfg # NilCfg =>
    /\ DOMAIN cfg.validators # {}
    /\ \A a \in DOMAIN cfg.validators :
         /\ ~IsNoneVariant(a)
         /\ cfg.validators[a].signingKey # NilKey
         /\ cfg.validators[a].signingMethod # "nil"
    /\ Registered(cfg, "HS256") =>
         /\ cfg.validators["HS256"].signingKey.kind = "bytes"
         /\ bufs[cfg.validators["HS256"].signingKey.ref].len >= MinSecretLen
    /\ cfg.clockSkewLeeway >= 0

\* a Config built from three options, among them a zero skew
C9_Witness ==
  /\ pc = "constructed" /\ cfg # NilCfg
  /\ Len(optsIn) = MaxOpts
  /\ Registered(cfg, "HS256") /\ Registered(cfg, "RS256")
  /\ cfg.clockSkewLeeway = 0

\* what later validations see of the Config
ConfigView ==
  [algs |-> DOMAIN cfg.validators,
   keys |-> [a \in DOMAIN cfg.validators |-> KeyMaterial(cfg, bufs, a)],
   skew |-> cfg.clockSkewLeeway,
   required |-> cfg.requiredClaims]

\* C10: once NewConfig has returned, no step of the caller changes the
\* accepted algorithms, the key material, the skew or the required claims.
C10_ConfigImmutable ==
  [][(cfg # NilCfg /\ cfg' # NilCfg) => ConfigView' = ConfigView]_vars

\* what the call that goroutine p has begun returns when no other call
\* runs, whatever order the Go runtime iterates the validators map in
ReturnsAlone(p, r) ==
  \A order \in IterOrders(DOMAIN cfg.validators) :
    r = parseAndValidateJWT(procs[p].tok, cfg, bufs, T0, procs[p].nowV, order)

\* C11: in every interleaving of calls that share one Config, each call
\* returns what it returns when run alone, no step of a call changes the
\* Config, the key bytes or the result of another call, and two successful
\* calls hold different Claims objects.
C11_ConcurrentCallsIndependent ==
  [][/\ pc = "idle" => cfg' = cfg /\ bufs' = bufs /\ nameBufs' = nameBufs
     /\ \A p \in ProcIds :
          /\ procs[p].at # "done" /\ procs'[p].at = "done"
               => /\ procs[p].at = "keyed" /\ procs'[p].tok = procs[p].tok
                  /\ ReturnsAlone(p, procs'[p].res)
          /\ procs[p].at = "done" /\ procs'[p].at = "done" => procs'[p] = procs[p]
          /\ \A q \in ProcIds \ {p} :
               (/\ procs'[p].at = "done" /\ procs'[q].at = "done"
                /\ procs'[p].res.err = NilErr /\ procs'[q].res.err = NilErr)
                 => procs'[p].addr # procs'[q].addr]_vars

\* two calls have returned, one with the claims of its token and one with
\* an error, and the second finished while the first result was live
C11_Witness ==
  /\ procs["g1"].at = "done" /\ procs["g2"].at = "done"
  /\ procs["g1"].res.err = NilErr /\ procs["g1"].res.claims.Subject = "bob"
  /\ procs["g2"].res.err # NilErr /\ procs["g2"].res.err.code = ErrExpired

BuiltResponse == unit.fn = "buildErrorResponse"

---------------------------------------------------------------------------
(* Properties of the adapters *)

InHand == req # NoReq
Answered == req.phase = "answered"

\* the reasons of the public taxonomy
Taxonomy ==
  {ErrExpired, ErrInvalidSignature, ErrMissingToken, ErrMalformed,
   ErrMalformedAlgorithmHeader, ErrUnsupportedAlgorithm, ErrNoneAlgorithm}

\* the reason the caller is given with a rejection
ReportedReason ==
  IF req.adapter = "gin" THEN req.out.body.reason ELSE req.out.message

\* the extraction step of the adapter on the request in hand
ExtractionOf ==
  IF req.adapter = "gin" THEN extractToken(req.in, cfg)
  ELSE IF ~req.in.hasMD
    THEN NotExtracted(ErrMissingToken, <<"metadata not found">>)
  ELSE extractTokenFromMetadata(req.in.authorization)

\* the results parseAndValidateJWT can give for the extracted token
ValidationOf(token) ==
  {parseAndValidateJWT(token.tok, cfg, bufs, T0, req.nowV, order) :
     order \in IterOrders(DOMAIN cfg.validators)}

\* the error the adapter rejects the request in hand with, or NilErr
RejectionError ==
  IF ExtractionOf.err # NilErr THEN ExtractionOf.err
  ELSE (CHOOSE v \in ValidationOf(ExtractionOf.token) : TRUE).err

\* how often the downstream handler has been run for the request in hand
HandlerCalls == IF Answered THEN req.out.handlerCalls ELSE 0

\* the run of the adapter on the request in hand when the Config holds
\* logger l instead of its own
OutcomesWithLogger(l) ==
  LET c == [cfg EXCEPT !.logger = l]
  IN  {IF req.adapter = "gin"
         THEN JWTAuth(req.in, c, bufs, T0, req.nowV, order).out
         ELSE UnaryServerInterceptor(req.in, c, bufs, T0, req.nowV, order).out :
       order \in IterOrders(DOMAIN cfg.validators)}

\* C13: every rejection reports one reason of the taxonomy, to the caller
\* and in the security event; never UNKNOWN, CONFIG_ERROR,
\* ALGORITHM_MISMATCH or free text.
C13_ClosedTaxonomy ==
  (Answered /\ req.out.handlerCalls = 0)
    => /\ ReportedReason \in Taxonomy
       /\ \A i \in DOMAIN req.logs :
            req.logs[i].auth_event.FailureReason \in Taxonomy
       /\ req.val.called => req.val.res.err.code \in Taxonomy

\* C14: with a logger, each request hands exactly one SecurityEvent to the
\* logger, "failure" on every rejection path and "success" otherwise, and
\* the answer goes out only after that call; with no logger nothing is
\* handed over or written, and the outcome is the one of a run with a
\* logger.
C14_OneEventPerAttempt ==
  [][/\ req' # NoReq =>
          /\ Len(req'.logs) = (IF Logger(cfg') # "nil" THEN 1 ELSE 0)
          /\ \A i \in DOMAIN req'.logs :
               req'.logs[i].auth_event.EventType
                 = (IF req'.out.handlerCalls = 0 THEN "failure" ELSE "success")
          /\ Logger(cfg') = "nil" => sink' = <<>>
          /\ Len(sink') <= Len(req'.logs)
     /\ (req # NoReq /\ req'.phase = "answered")
          => req.phase = "logging" /\ req'.logs = req.logs /\ req'.out = req.out
     /\ (req = NoReq /\ req'.phase = "answered") => Logger(cfg) = "nil"
     /\ (Answered /\ Logger(cfg) = "nil") => req.out \in OutcomesWithLogger("L1")]_vars

\* a request without a token has been rejected after one failure event
C14_Witness ==
  /\ Answered /\ req.out.handlerCalls = 0
  /\ ~req.val.called /\ req.token = CredEmpty
  /\ Len(req.logs) = 1 /\ req.logs[1].auth_event.EventType = "failure"
  /\ Len(sink) = 1

\* is preview a redacted form of the token string raw
Redacted(preview, raw) ==
  IF Len(raw) > PreviewLen
    THEN preview = SubSeq(raw, 1, PreviewLen) \o <<".", ".", ".">>
    ELSE preview \in {<<>>, <<"*", "*", "*">>}

\* C15: the token preview of every SecurityEvent, and the token value
\* written to the log, is at most the first 8 characters of the token
\* followed by "...", and a sentinel for an empty or short token.
C15_PreviewRedacted ==
  InHand
    => /\ \A i \in DOMAIN req.logs :
            Redacted(req.logs[i].auth_event.TokenPreview, req.token.chars)
       /\ \A i \in DOMAIN sink :
            Redacted(sink[i].auth_event.token, req.token.chars)

C17_SinkCannotAffectAnswer ==
  /\ [](Answered => req.out \in OutcomesWithLogger("nil"))
  /\ (req.phase = "logging") ~> (req.phase = "answered")

\* C20: the downstream handler runs at most once, and only for a request
\* whose token was extracted and validated, with a context that holds the
\* validated Claims and the request id; a request that fails extraction or
\* validation is answered 401 / Unauthenticated and the handler never runs.
C20_DefaultDeny ==
  InHand
    => LET ex == ExtractionOf
           passed == /\ ex.err = NilErr
                     /\ \A v \in ValidationOf(ex.token) : v.err = NilErr
           requestID == IF req.adapter = "gin" /\ req.in.rid # ""
                          THEN req.in.rid ELSE NewUUID
       IN  /\ HandlerCalls <= 1
           /\ HandlerCalls = 1
                => /\ passed
                   /\ GetClaims(req.out.ctx).ok
                   /\ GetClaims(req.out.ctx).claims \in
                        {v.claims : v \in ValidationOf(ex.token)}
                   /\ GetClaims(req.out.ctx).claims.Subject
                        = StringClaim(ex.token.tok.payload, "sub")
                   /\ GetRequestID(req.out.ctx) = [id |-> requestID, ok |-> TRUE]
           /\ (Answered /\ ~passed)
                => /\ HandlerCalls = 0
                   /\ req.adapter = "gin" => req.out.status = 401
                   /\ req.adapter = "grpc" => req.out.status = Unauthenticated

\* bob's RS256 token was accepted by the Gin middleware, which ran the
\* handler with his claims and the X-Request-ID of the request
C20_Witness ==
  /\ Answered /\ req.adapter = "gin" /\ req.token = CredBob
  /\ req.out.handlerCalls = 1
  /\ GetClaims(req.out.ctx).claims.Subject = "bob"
  /\ GetRequestID(req.out.ctx).id = "rid-1"

RECURSIVE RequiredNames(_, _)
RequiredNames(opts, names) ==
  IF opts = <<>> THEN <<>>
  ELSE (IF Head(opts).op = "WithRequiredClaims" THEN names[Head(opts).s]
        ELSE <<>>) \o RequiredNames(Tail(opts), names)

\* C19: the registry requires the names of all its WithRequiredClaims
\* options; a correctly signed token inside the time window is accepted
\* only if its payload has every required name, and is otherwise rejected
\* with MALFORMED "required claim missing: <name>" for the first missing
\* name in configuration order.
C19_RequiredClaims ==
  /\ (pc = "constructed" /\ cfg # NilCfg)
       => cfg.requiredClaims = RequiredNames(optsIn, nameBufs)
  /\ (Returned /\ WellFormed(call.tok) /\ call.tok.alg.t = "str"
        /\ Registered(cfg, call.tok.alg.s)
        /\ ProducedWithKeyOf(call.tok, cfg, bufs, call.tok.alg.s)
        /\ InWindow(call.tok.payload, cfg.clockSkewLeeway, call.now))
       => /\ Accepted => RequiredPresent(cfg, call.tok.payload)
          /\ ~RequiredPresent(cfg, call.tok.payload)
               => /\ RejectedWith(ErrMalformed)
                  /\ call.res.err.msg =
                       <<"required claim missing: ",
                         FirstMissing(cfg.requiredClaims, call.tok.payload)>>

\* the arguments of the WithClockSkew options of opts, in order
RECURSIVE SkewOptions(_)
SkewOptions(opts) ==
  IF opts = <<>> THEN <<>>
  ELSE IF Head(opts).op = "WithClockSkew"
    THEN <<Head(opts).n>> \o SkewOptions(Tail(opts))
  ELSE SkewOptions(Tail(opts))

C22_AvailableAlgorithmsSorted ==
  unit.fn = "AvailableAlgorithms" =>
    LET algs == unit.out
    IN  /\ {algs[i] : i \in DOMAIN algs} = DOMAIN cfg.validators
        /\ Len(algs) = Cardinality(DOMAIN cfg.validators)
        /\ \A i \in 1..(Len(algs) - 1) : StrLess(algs[i], algs[i + 1])
        /\ \A o \in IterOrders(DOMAIN cfg.validators) :
             AvailableAlgorithms(cfg, o) = algs
        /\ algs = (IF DOMAIN cfg.validators = {"HS256"} THEN <<"HS256">>
                   ELSE IF DOMAIN cfg.validators = {"RS256"} THEN <<"RS256">>
                   ELSE <<"HS256", "RS256">>)

\* the map iteration visits RS256 first: the list still starts with HS256
C22_Witness ==
  /\ unit.fn = "AvailableAlgorithms"
  /\ unit.order = <<"RS256", "HS256">>
  /\ unit.out = <<"HS256", "RS256">>

InPipeline == call # NoCall /\ pc = "running"
Terminal == InPipeline /\ call.stage \in {"Success", "Failed"}

\* C23: a call moves through Start, TokenExtracted, AlgorithmRouted,
\* SignatureVerified, ClaimsValidated in that order, each step going to the
\* next stage or to Failed and none leaving Success or Failed for another
\* stage; it always ends, in Success with claims and a nil error or in
\* Failed with nil claims and a ValidationError, and returns nothing before.
C23_OneWayPipeline ==
  /\ [][(InPipeline /\ call' # NoCall) =>
          \E i \in 1..(Len(Stages) - 1) :
            /\ call.stage = Stages[i]
            /\ call'.stage \in {Stages[i + 1], "Failed"}]_vars
  /\ [](InPipeline =>
          /\ call.stage = "Success" =>
               call.res.claims # NilClaims /\ call.res.err = NilErr
          /\ call.stage = "Failed" =>
               call.res.claims = NilClaims /\ IsValidationError(call.res.err)
          /\ ~Terminal => call.res = NoRes)
  /\ (InPipeline ~> Terminal)

\* a token taken from the cookie has gone through every stage
C23_Witness ==
  /\ InPipeline /\ call.stage = "Success"
  /\ extractTokenFromHeader(call.r).err # NilErr
  /\ call.res.claims.Subject = "alice"

\* exp and nbf, where present, are numeric dates
ProperDates(p) == \A k \in {"exp", "nbf"} : k \in DOMAIN p => HasNum(p, k)

\* the code of the earliest stage at which tok is defective: routing, then
\* signature, then time window, then required claims; "" without a defect
FirstDefectCode(tok, c, heap, now) ==
  IF tok.alg.t = "absent" THEN ErrMalformed
  ELSE IF tok.alg.t # "str" THEN ErrMalformedAlgorithmHeader
  ELSE IF IsNoneVariant(tok.alg.s) THEN ErrNoneAlgorithm
  ELSE IF ~Registered(c, tok.alg.s) THEN ErrUnsupportedAlgorithm
  ELSE IF ~ProducedWithKeyOf(tok, c, heap, tok.alg.s) THEN ErrInvalidSignature
  ELSE IF ~InWindow(tok.payload, c.clockSkewLeeway, now) THEN ErrExpired
  ELSE IF ~RequiredPresent(c, tok.payload) THEN ErrMalformed
  ELSE ""

\* C24: a token whose segments decode and that has one or more defects is
\* rejected with the code of the earliest failing stage (routing codes
\* before INVALID_SIGNATURE before EXPIRED before MALFORMED for a missing
\* required claim), and the code does not depend on the map iteration order.
C24_FailurePrecedence ==
  (Returned /\ WellFormed(call.tok) /\ ProperDates(call.tok.payload))
    => /\ FirstDefectCode(call.tok, cfg, bufs, call.now) # ""
            => RejectedWith(FirstDefectCode(call.tok, cfg, bufs, call.now))
       /\ \A order \in IterOrders(DOMAIN cfg.validators) :
            parseAndValidateJWT(call.tok, cfg, bufs, call.now, call.nowV,
                                order).err.code = call.res.err.code

\* jwt.Parse gets as far as calling the key callback for tok
KeyFuncCalled(tok) == ParseUnverified(tok) = NoLibErr /\ tok.sig.m # "b64"

\* the codes validateAlgorithm gives to a defect of a present alg member
RoutingCodes ==
  {ErrMalformedAlgorithmHeader, ErrNoneAlgorithm, ErrUnsupportedAlgorithm}

\* C25: an error validateAlgorithm returns in the key callback is the error
\* parseAndValidateJWT returns, code and message; and for a token whose
\* segments decode and whose alg member is present with a routing defect,
\* parseAndValidateJWT returns the error validateAlgorithm gives for that
\* header.
C25_RouterErrorsPropagate ==
  Returned =>
    \A order \in IterOrders(DOMAIN cfg.validators) :
      LET got == validateAlgorithm(call.tok.alg, call.tok.alg.s, cfg, order)
      IN  /\ (KeyFuncCalled(call.tok) /\ got.err # NilErr)
               => call.res = [claims |-> NilClaims, err |-> got.err]
          /\ (WellFormed(call.tok) /\ call.tok.alg.t # "absent"
                /\ got.err.code \in RoutingCodes)
               => call.res = [claims |-> NilClaims, err |-> got.err]

\* the signature check of the library, or the method comparison of
\* validateAlgorithm, is what rejected the token of the call
SignatureCheckFailed ==
  /\ KeyFuncCalled(call.tok)
  /\ \A order \in IterOrders(DOMAIN cfg.validators) :
       LET got == validateAlgorithm(call.tok.alg, call.tok.alg.s, cfg, order)
       IN  \/ got.err.code = ErrInvalidSignature
           \/ /\ got.err = NilErr
              /\ Verify(call.tok.alg.s, call.tok.sig,
                        KeyValue(got.key, bufs)) # NoLibErr

\* C26: INVALID_SIGNATURE is reported only when the signature check failed
\* (or the signing method mismatched), and a token whose structure is
\* invalid (number of segments, base64 of a segment, JSON of the header or
\* of the payload) is reported MALFORMED.
C26_DecodeFailuresMalformed ==
  Returned =>
    /\ RejectedWith(ErrInvalidSignature) => SignatureCheckFailed
    /\ ~WellFormed(call.tok) => RejectedWith(ErrMalformed)

HeaderWellFormed(r) ==
  /\ r.auth.sep
  /\ r.auth.scheme \in {"Bearer", "bearer", "BEARER"}
  /\ r.auth.cred # CredEmpty

\* a cookie name is configured and r has that cookie with a value that is
\* not empty once trimmed
CookieUsable(r, c) ==
  /\ c.cookieName # ""
  /\ c.cookieName \in DOMAIN r.cookies
  /\ r.cookies[c.cookieName].cred # CredEmpty

\* C28: extractToken returns the trimmed token of a well-formed
\* Authorization header; otherwise the value of the configured cookie if it
\* is there and not empty; otherwise the error of the header (MISSING_TOKEN
\* for no header or an empty token, MALFORMED for another format), never
\* that of the cookie; and never a token together with an error.
C28_HeaderThenCookie ==
  unit.fn = "extractToken" =>
    LET r == unit.r
        out == unit.out
    IN  /\ HeaderWellFormed(r) => out = Extracted(r.auth.cred)
        /\ (~HeaderWellFormed(r) /\ CookieUsable(r, cfg))
             => out = Extracted(r.cookies[cfg.cookieName].cred)
        /\ (~HeaderWellFormed(r) /\ ~CookieUsable(r, cfg))
             => /\ out.token = CredEmpty
                /\ out.err.code =
                     (IF r.auth = EmptyValue
                           \/ (r.auth.sep /\ r.auth.cred = CredEmpty
                                 /\ r.auth.scheme \in {"Bearer", "bearer", "BEARER"})
                        THEN ErrMissingToken ELSE ErrMalformed)
                /\ out.err.msg \notin {<<"cookie not found">>,
                                       <<"cookie value is empty">>}
        /\ (out.err = NilErr) # (out.token = CredEmpty)

\* a Basic header and a cookie with a token, the cookie being configured:
\* the token of the cookie is returned
C28_Witness ==
  /\ unit.fn = "extractToken"
  /\ unit.r.auth.scheme = "Basic"
  /\ cfg.cookieName = "auth_token"
  /\ unit.out = Extracted(CredAlice)

\* the shape of key the signing method a verifies with
KeyShape(a) == IF a = "HS256" THEN "bytes" ELSE "rsa"

\* C29: every validator of a Config is stored under the name its signing
\* method reports, HS256 or RS256, with a key of that family's shape; a key
\* validateAlgorithm returns is the one registered for the declared alg and
\* has the shape the token's method verifies with; and when the token's
\* method differs from the validator's, validateAlgorithm rejects with
\* INVALID_SIGNATURE and returns no key.
C29_KeyMethodConsistency ==
  /\ cfg # NilCfg =>
       \A a \in DOMAIN cfg.validators :
         /\ a \in {"HS256", "RS256"}
         /\ cfg.validators[a].signingMethod = a
         /\ cfg.validators[a].signingKey.kind = KeyShape(a)
  /\ unit.fn = "validateAlgorithm" =>
       /\ unit.out.err = NilErr =>
            /\ unit.alg.t = "str" /\ Registered(cfg, unit.alg.s)
            /\ unit.out.key = cfg.validators[unit.alg.s].signingKey
            /\ unit.method = unit.alg.s
            /\ unit.out.key.kind = KeyShape(unit.method)
       /\ (unit.alg.t = "str" /\ Registered(cfg, unit.alg.s)
             /\ unit.method # cfg.validators[unit.alg.s].signingMethod)
            => /\ unit.out.key = NilKey
               /\ unit.out.err.code = ErrInvalidSignature

\* a token that declares RS256 while its method is HS256, against a
\* registry with both algorithms: no key is handed out
C29_Witness ==
  /\ unit.fn = "validateAlgorithm"
  /\ unit.alg = Str("RS256") /\ unit.method = "HS256"
  /\ Registered(cfg, "HS256") /\ Registered(cfg, "RS256")
  /\ unit.out.key = NilKey
  /\ unit.out.err.code = ErrInvalidSignature

\* C30: every security event has a non-empty Algorithm: the alg string of
\* the header when the token has at least two segments and its first
\* segment decodes to a JSON object with a string alg, "MALFORMED"
\* otherwise; on a success event it is an algorithm of the registry.
C30_EventAlgorithm ==
  InHand
    => \A i \in DOMAIN req.logs :
         LET e == req.logs[i].auth_event
             t == req.token.tok
         IN  /\ e.Algorithm # ""
             /\ e.Algorithm =
                  (IF t.segs >= 2 /\ t.header = "ok" /\ t.alg.t = "str"
                   THEN t.alg.s ELSE "MALFORMED")
             /\ e.EventType = "success" => Registered(cfg, e.Algorithm)

TypeOK ==
  /\ pc \in {"start", "constructed", "idle", "running", "returned"}
  /\ (cfg = NilCfg) = (pc = "start" \/ cfgErr # NilErr)
  /\ (pc \in {"running", "returned"}) = (call # NoCall)
  /\ pc = "running" => call.stage \in {Stages[i] : i \in DOMAIN Stages} \cup {"Failed"}
  /\ req.phase \in {"none", "logging", "blocked", "answered"}
  /\ req # NoReq => pc = "idle" /\ req.adapter \in {"gin", "grpc"}
  /\ Len(sink) <= 1
  /\ \A p \in ProcIds : procs[p].at \in {"idle", "keyed", "done"}
  /\ unit.fn \in {"none", "buildErrorResponse", "validateAlgorithm",
                 "AvailableAlgorithms", "validateClaims", "extractToken"}
===========================================================================
